---- MODULE Spec2Model ----
(***************************************************************************)
(* Model of the correlation engine of threat-telemetry-hub                 *)
(* (internal/correlation/correlator.go) and of the goroutines that use it: *)
(* one processing task per event (cmd/hub/main.go, Pipeline.Start and      *)
(* processEvent), the cleanup goroutine started by NewCorrelator, and      *)
(* callers of GetGroup / GetActiveGroups.                                  *)
(*                                                                         *)
(* Pointers are modelled by a heap: `heap` is the sequence of every        *)
(* CorrelationGroup ever allocated (a pointer is an index into it) and     *)
(* `correlations` is the map from identifier to pointer.  An event         *)
(* occurrence (a pointer to a NormalizedEvent) is named by the task that   *)
(* carries it.                                                             *)
(*                                                                         *)
(* The pipeline around the engine (cmd/hub/main.go) is modelled as well:   *)
(* the two channels of NewPipeline, the receive loop of Pipeline.Start and *)
(* the stages of processEvent, with the analyzer (internal/ai), the        *)
(* normalizer (internal/normalization) and the enricher                    *)
(* (internal/enrichment) it calls.  Risk scores are in hundredths.         *)
(***************************************************************************)
EXTENDS Integers, Sequences, FiniteSets, TLC

\* ------------------------------------------------------------------ bounds
\* Number of processing tasks (events handed to Correlate) in one run.
MaxTasks == 3
\* Resolution of the clock: how many clock readings make up one hour.
TicksPerHour == 1
\* Number of goroutines that call GetGroup / GetActiveGroups.
MaxReaders == 2

\* Number of processing tasks in a run that also exercises the queries.
QueriedTasks == 2

\* Number of times extractCorrelationKeys is called on one attribute map.
KeyCalls == 2

\* Number of raw events the collectors send in one run of the pipeline.
MaxEvents == 2
\* Capacities of Pipeline.eventChan and Pipeline.outputChan; the program
\* makes both with room for 1000 elements, the model scales that down.
eventChanCap == 1
outputChanCap == 1

\* Number of collectors the configuration lists, and number of raw events
\* they send in one run of the whole process, from startup to exit.
MaxCollectors == 3
MaxCollected == 1

\* Number of health checks registered with the HealthChecker.
MaxChecks == 3

\* Number of functions registered for Telemetry.Shutdown, and number of
\* calls of Shutdown in one run.
MaxShutdownFns == 2
MaxShutdownCalls == 2

Tasks == 1..MaxTasks
Readers == 1..MaxReaders

\* ------------------------------------------------------- program constants
\* NewCorrelator: ttl: 1 * time.Hour
ttl == 1 * TicksPerHour

\* The clock stops advancing one reading past the TTL: late enough for a
\* group created at 0 to expire.
MaxNow == ttl + 1

\* ------------------------------------------------------------ event inputs
\* An attribute value of NormalizedEvent.Data (interface{}): a string, or a
\* value of some other dynamic type.
Str(s) == [isString |-> TRUE, str |-> s]
NonStr == [isString |-> FALSE, str |-> ""]

\* The attribute maps the tasks draw their events from.
\*   1: source_ip only   2: source_ip and user   3: user only
\*   4: nothing usable (empty source_ip, non-string user)
EventData ==
  << [a \in {"source_ip"} |-> Str("10.0.0.5")],
     [a \in {"source_ip", "user"} |->
         IF a = "user" THEN Str("alice") ELSE Str("10.0.0.5")],
     [a \in {"user"} |-> Str("alice")],
     [a \in {"source_ip", "user"} |->
         IF a = "user" THEN NonStr ELSE Str("")] >>

EventTypes == 1..Len(EventData)

\* ------------------------------------------------------------- pure helpers
\* A block that takes any string, the empty one included.
KeyOfAnyString(data, attr, kind) ==
  IF attr \in DOMAIN data /\ data[attr].isString
  THEN << kind \o ":" \o data[attr].str >>
  ELSE << >>

\* One `if v, ok := event.Data[attr].(string); ok && v != ""` block.
KeyOf(data, attr, kind) ==
  IF attr \in DOMAIN data /\ data[attr].isString /\ data[attr].str # ""
  THEN << kind \o ":" \o data[attr].str >>
  ELSE << >>

extractCorrelationKeys(data) ==
  KeyOf(data, "source_ip", "ip") \o KeyOf(data, "user", "user")
    \o KeyOf(data, "hostname", "host") \o KeyOf(data, "file_hash", "hash")
    \o KeyOf(data, "domain", "domain")

\* A match that wants every key of the event among the group's keys.
matchesGroupAll(keys, group) ==
  \A i \in 1..Len(keys) : \E j \in 1..Len(group.Keys) : keys[i] = group.Keys[j]

matchesGroup(keys, group) ==
  \E i \in 1..Len(keys) : \E j \in 1..Len(group.Keys) : keys[i] = group.Keys[j]

\* The bytes written to the hash for the keys: the keys one after the other,
\* with no separator.
RECURSIVE ConcatKeys(_)
ConcatKeys(keys) ==
  IF keys = << >> THEN "" ELSE Head(keys) \o ConcatKeys(Tail(keys))

\* An identifier derived from the key set alone.
generateCorrelationIDNoNonce(keys, t) == << ConcatKeys(keys), 0 >>

\* sha256 over the keys followed by time.Now().String(), cut to 16 hex
\* digits.  The digest is modelled as injective on its input: the identifier
\* is the input itself, the key bytes and the clock reading t.
generateCorrelationID(keys, t) == << ConcatKeys(keys), t >>

\* The zero value of a string result / a nil pointer.
NoID == << >>
Nil == 0

KeySet(keys) == {keys[i] : i \in 1..Len(keys)}
Min(a, b) == IF a < b THEN a ELSE b

\* ------------------------------------------------------- internal/ai
\* The result of Provider.Analyze: an error, or a Response whose Content is
\* either the JSON encoding of a RiskAnalysis or text json.Unmarshal rejects.
NoResponse == [err |-> FALSE, json |-> FALSE, called |-> FALSE]
ProviderError == [err |-> TRUE, json |-> FALSE, called |-> TRUE]
Unparseable == [err |-> FALSE, json |-> FALSE, called |-> TRUE]
\* A nil *RiskAnalysis.
NilAnalysis ==
  [isNil |-> TRUE, RiskScore |-> 0, RiskLevel |-> "", MITRETactics |-> << >>,
   MITRETechniques |-> << >>, Confidence |-> 0, RawContext |-> ""]
\* The RiskAnalysis a provider judged: a score in hundredths, the level the
\* provider named for it, and the tags it found.
Judgment(score, level) ==
  [isNil |-> FALSE, RiskScore |-> score, RiskLevel |-> level,
   MITRETactics |-> << "TA0001" >>, MITRETechniques |-> << "T1078" >>,
   Confidence |-> 80, RawContext |-> ""]
Answer(analysis) ==
  [err |-> FALSE, json |-> TRUE, called |-> TRUE, value |-> analysis]


fallbackAnalysis ==
  [isNil |-> FALSE, RiskScore |-> 50, RiskLevel |-> "medium",
   MITRETactics |-> << >>, MITRETechniques |-> << >>, Confidence |-> 0,
   RawContext |-> "AI analysis unavailable - fallback applied"]

\* AnalyzeRawEvent: (nil, err) when the provider fails, the fallback when
\* the content does not parse, the parsed analysis otherwise.
AnalyzeRawEvent(response) ==
  IF response.err THEN [analysis |-> NilAnalysis, err |-> TRUE]
  ELSE IF ~response.json THEN [analysis |-> fallbackAnalysis, err |-> FALSE]
  ELSE [analysis |-> response.value, err |-> FALSE]

\* ------------------------------------------------ internal/normalization
\* The schemas a configuration may name; Normalize knows the first two.
Schemas == {"ocsf", "ecs", "cef"}

\* Normalize: an event whose Data is a fresh empty map (the mapping
\* functions set Severity only), or an error for an unsupported schema.
Normalize(defaultSchema, id) ==
  IF defaultSchema \in {"ocsf", "ecs"}
  THEN [err |-> FALSE, ID |-> id, Schema |-> defaultSchema,
        Data |-> [a \in {} |-> NonStr]]
  ELSE [err |-> TRUE, ID |-> id, Schema |-> "", Data |-> [a \in {} |-> NonStr]]

\* --------------------------------------------------- internal/enrichment
SourceNames == << "threatforge", "entra_id", "okta", "asset" >>
NameSet == {SourceNames[i] : i \in DOMAIN SourceNames}
NoEnrichments == [n \in {} |-> ""]

\* NewEnricher: one source object for every source the configuration
\* enables, in the fixed order; each carries its configuration's flag.
RECURSIVE SourcesFrom(_, _)
SourcesFrom(names, enabled) ==
  IF names = << >> THEN << >>
  ELSE (IF Head(names) \in enabled
        THEN << [name |-> Head(names), enabled |-> TRUE] >> ELSE << >>)
       \o SourcesFrom(Tail(names), enabled)
NewEnricher(enabled) == SourcesFrom(SourceNames, enabled)

\* What a source's Enrich returns when it succeeds: its context map.
ContextOf(name) == "context:" \o name

\* A loop body that throws away what was gathered when a source fails.
EnrichOneAbort(enrichments, source, fails) ==
  IF source.enabled /\ ~fails
  THEN [n \in DOMAIN enrichments \cup {source.name} |->
          IF n = source.name THEN ContextOf(n) ELSE enrichments[n]]
  ELSE NoEnrichments

\* One iteration of the loop in Enrich: a disabled source is skipped, a
\* failing one logged and skipped, a result stored under the source's name.
EnrichOne(enrichments, source, fails) ==
  IF source.enabled /\ ~fails
  THEN [n \in DOMAIN enrichments \cup {source.name} |->
          IF n = source.name THEN ContextOf(n) ELSE enrichments[n]]
  ELSE enrichments

\* Enrich run to its return: the map after every source was visited, when
\* the sources named in `failing` return an error.
RECURSIVE EnrichFrom(_, _, _)
EnrichFrom(enrichments, srcs, failing) ==
  IF srcs = << >> THEN enrichments
  ELSE EnrichFrom(EnrichOne(enrichments, Head(srcs), Head(srcs).name \in failing),
                  Tail(srcs), failing)
Enrich(srcs, failing) == EnrichFrom(NoEnrichments, srcs, failing)

\* ------------------------------------------------------------ cmd/hub/main
\* A switch whose boundary values fall to the lower level.
calculateRiskStrict(aiAnalysis, normalized) ==
  IF aiAnalysis.isNil THEN << 0, "unknown" >>
  ELSE LET score == aiAnalysis.RiskScore IN
       << score,
          IF score > 90 THEN "critical"
          ELSE IF score > 70 THEN "high"
          ELSE IF score > 40 THEN "medium"
          ELSE IF score > 10 THEN "low"
          ELSE "info" >>

\* calculateRisk: (0.0, "unknown") without an analysis, else the analysis's
\* score and the level of the first threshold it reaches.
calculateRisk(aiAnalysis, normalized) ==
  IF aiAnalysis.isNil THEN << 0, "unknown" >>
  ELSE LET score == aiAnalysis.RiskScore IN
       << score,
          IF score >= 90 THEN "critical"
          ELSE IF score >= 70 THEN "high"
          ELSE IF score >= 40 THEN "medium"
          ELSE IF score >= 10 THEN "low"
          ELSE "info" >>

\* The ProcessedEvent processEvent builds and scores.
ProcessedEvent(id, aiAnalysis, normalized, enrichments, correlationID) ==
  LET risk == calculateRisk(aiAnalysis, normalized) IN
    [ID |-> id, NormalizedData |-> normalized.Data, AIAnalysis |-> aiAnalysis,
     Enrichments |-> enrichments, CorrelationID |-> correlationID,
     RiskScore |-> risk[1], RiskLevel |-> risk[2],
     MITRETactics |-> IF aiAnalysis.isNil THEN << >> ELSE aiAnalysis.MITRETactics,
     MITRETechniques |->
       IF aiAnalysis.isNil THEN << >> ELSE aiAnalysis.MITRETechniques]

\* -------------------------------------------------------------------- state
VARIABLES
  now,           \* the reading time.Now() returns
  heap,          \* every CorrelationGroup allocated so far
  correlations,  \* Correlator.correlations: identifier -> pointer
  mu,            \* Correlator.mu: [w: write-locked, r: number of readers]
  pc,            \* per task: "idle", "wait", "scan", "act", "done"
  ev,            \* per task: the event type it carries (0: none yet)
  tkeys,         \* per task: Correlate's local `keys`
  found,         \* per task: the group the range loop stopped at, or Nil
  ret,           \* per task: the identifier Correlate returned
  spc,           \* cleanup goroutine: "tick" (waiting for the ticker), "cs"
  evicted,       \* pointers a sweep deleted -> Len(heap) at that moment
  rpc,           \* per reader: "idle", "get", "list" (inside the read section)
  rid,           \* per reader: the identifier passed to GetGroup
  got,           \* per reader: what its last GetGroup returned (pointer or Nil)
  listed,        \* per reader: what its last GetActiveGroups returned
  schema,        \* Normalizer.config.DefaultSchema
  eventChan,     \* Pipeline.eventChan: the raw events queued, oldest first
  outputChan,    \* Pipeline.outputChan: the ProcessedEvents queued
  sent,          \* how many raw events the collectors have sent so far
  running,       \* the loop of Pipeline.Start has not returned
  stage,         \* per task: where processEvent stands ("none": not started)
  raw,           \* per task: the raw event it was started with (0: none)
  resp,          \* per task: what the AI provider answered
  ai,            \* per task: processEvent's local `aiAnalysis`
  enr,           \* per task: processEvent's local `enrichments`
  sources,       \* Enricher.sources
  epc,           \* one call of Enrich: "idle", "loop", "returned"
  eidx,          \* that call: index of the source the loop is at
  eout,          \* that call: the map `enrichments`
  efail,         \* that call: the sources whose Enrich returned an error
  eret,          \* that call: the error Enrich returned ("none": no return yet)
  judgment,      \* one call of calculateRisk: its argument aiAnalysis
  canon,         \* that call: its argument, the normalized event
  risk,          \* that call: the pair returned (<< >> before the call)
  kdata,         \* one event's attribute map (NormalizedEvent.Data)
  kkeys,         \* what the calls of extractCorrelationKeys on it returned
  aiCfg,         \* cfg.AI: the provider named, and whether its API key is set
  mainpc,        \* main: "init", "fatal", "serving", "stopping", "exited"
  collectors,    \* the configuration's collectors: enabled or not
  cpc,           \* per collector: "none", "collect", "returned"
  mgr,           \* Manager.Start: "none", "spawned", "returned"
  atCancel,      \* per task: the stage it was in when the context was cancelled
  checks,        \* HealthChecker.checks: per registered check, is it Critical
  hcall,         \* one call of Check: "idle", "spawn", "wait", "returned"
  hgo,           \* per check, its goroutine: "none", "run", "lock", "done"
  herr,          \* per check: c.Check returned an error
  status,        \* that call's status.Status
  components,    \* that call's status.Components: check -> its Status
  lastStatus,    \* HealthChecker.lastStatus (<< >>: nil)
  shutdownFns,   \* Telemetry.shutdownFns: per function, does it fail
  shutdownOnce,  \* Telemetry.shutdownOnce: "fresh", "running", "done"
  scall,         \* per call of Shutdown: "idle", "loop", "blocked", "back",
                 \* "returned"
  sidx,          \* the index the range loop over shutdownFns is at
  serr,          \* per call of Shutdown: its local `err` (TRUE: non-nil)
  sret,          \* per call of Shutdown: what it returned ("none": not yet)
  ran,           \* per shutdown function: how many times it has been run
  first          \* the call in which Do ran the function (0: none yet)

engineVars == << now, heap, correlations, mu, pc, ev, tkeys, found, ret, spc,
                 evicted, rpc, rid, got, listed >>
pipeVars == << schema, eventChan, outputChan, sent, running, stage, raw, resp,
               ai, enr >>
enrichVars == << sources, epc, eidx, eout, efail, eret >>
riskVars == << judgment, canon, risk >>
keyVars == << kdata, kkeys >>
mainVars == << aiCfg, mainpc, collectors, cpc, mgr, atCancel >>
healthVars == << checks, hcall, hgo, herr, status, components, lastStatus >>
telVars == << shutdownFns, shutdownOnce, scall, sidx, serr, sret, ran,
             first >>
obsVars == << healthVars, telVars >>
vars == << engineVars, pipeVars, enrichVars, riskVars, keyVars, mainVars,
           obsVars >>

\* A step of the engine leaves the pipeline's own state alone, and a step of
\* the pipeline's stages leaves the engine and the configuration alone.
EngineOnly ==
  UNCHANGED << pipeVars, enrichVars, riskVars, keyVars, obsVars, mainVars >>
StagesOnly ==
  UNCHANGED << engineVars, schema, enrichVars, riskVars, keyVars, obsVars,
               mainVars >>

taskVars == << pc, ev, tkeys, found, ret >>
readVars == << rpc, rid, got, listed >>
sweepVars == << spc, evicted >>

\* NewCorrelator: an empty map, the cleanup goroutine started.
NewCorrelator ==
  /\ now = 0
  /\ heap = << >>
  /\ correlations = << >>
  /\ mu = [w |-> FALSE, r |-> 0]
  /\ pc = [t \in Tasks |-> "idle"]
  /\ ev = [t \in Tasks |-> 0]
  /\ tkeys = [t \in Tasks |-> << >>]
  /\ found = [t \in Tasks |-> Nil]
  /\ ret = [t \in Tasks |-> NoID]
  /\ spc = "tick"
  /\ evicted = << >>
  /\ rpc = [r \in Readers |-> "idle"]
  /\ rid = [r \in Readers |-> NoID]
  /\ got = [r \in Readers |-> Nil]
  /\ listed = [r \in Readers |-> << >>]

\* NewPipeline: two empty channels; no event received yet.
NewPipeline ==
  /\ eventChan = << >>
  /\ outputChan = << >>
  /\ sent = 0
  /\ running = TRUE
  /\ stage = [t \in Tasks |-> "none"]
  /\ raw = [t \in Tasks |-> 0]
  /\ resp = [t \in Tasks |-> NoResponse]
  /\ ai = [t \in Tasks |-> NilAnalysis]
  /\ enr = [t \in Tasks |-> NoEnrichments]

\* The map of an event without attributes.
NoData == [a \in {} |-> NonStr]

\* main has constructed the components and started the pipeline; no
\* collector is configured.
Serving ==
  /\ aiCfg = [provider |-> "anthropic", keySet |-> TRUE]
  /\ mainpc = "serving"
  /\ collectors = << >>
  /\ cpc = << >>
  /\ mgr = "none"
  /\ atCancel = [t \in Tasks |-> "none"]

\* No call of Enrich, calculateRisk or extractCorrelationKeys under way.
Idle ==
  /\ epc = "idle"
  /\ eidx = 0
  /\ eout = NoEnrichments
  /\ efail = {}
  /\ eret = "none"
  /\ risk = << >>
  /\ kkeys = << >>
  /\ Serving
\* NewHealthChecker: no check registered, no call of Check made.
NoHealth ==
  /\ checks = << >>
  /\ hcall = "idle"
  /\ hgo = << >>
  /\ herr = << >>
  /\ status = "healthy"
  /\ components = << >>
  /\ lastStatus = << >>

\* A Telemetry without shutdown functions, Shutdown not called.
NoShutdown ==
  /\ shutdownFns = << >>
  /\ shutdownOnce = "fresh"
  /\ scall = [k \in 1..MaxShutdownCalls |-> "idle"]
  /\ sidx = 0
  /\ serr = [k \in 1..MaxShutdownCalls |-> FALSE]
  /\ sret = [k \in 1..MaxShutdownCalls |-> "none"]
  /\ ran = << >>
  /\ first = 0

NoCalls == Idle /\ kdata = NoData /\ NoHealth /\ NoShutdown

\* main: the components as constructed from a configuration that names a
\* supported schema and enables one enrichment source.
DefaultSources == NewEnricher({"threatforge"})
Init ==
  /\ NewCorrelator /\ NewPipeline /\ NoCalls
  /\ schema = "ocsf"
  /\ sources = DefaultSources
  /\ judgment = NilAnalysis
  /\ canon = Normalize("ocsf", 1)

\* The pointers stored in the map.
Stored == {correlations[id] : id \in DOMAIN correlations}

\* ----------------------------------------------------------------- the clock
\* time.Now() is nondecreasing; two readings may be equal.
Tick ==
  /\ now < MaxNow
  /\ now' = now + 1
  /\ UNCHANGED << heap, correlations, mu, taskVars, sweepVars, readVars >>
  /\ EngineOnly

\* --------------------------------------------------------------- sync.RWMutex
\* A Lock() that excludes nobody.
CanLockNoExclusion == TRUE

\* Lock() proceeds when there is neither a writer nor a reader.
CanLock == ~mu.w /\ mu.r = 0
\* An RLock() that does not wait for a writer to leave.
CanRLockNoExclusion == TRUE

\* RLock() proceeds when there is no writer.
CanRLock == ~mu.w

\* ------------------------------------------------------------------ Correlate
\* Pipeline.Start hands an event to a new task (go p.processEvent), which
\* reaches Correlate and extracts the keys before taking the lock.  Nothing
\* else can observe this step, so the tasks, which are interchangeable, are
\* numbered in the order of their event types to avoid exploring runs that
\* differ only in the names of the tasks.
CorrelateCall(t, e) ==
  /\ pc[t] = "idle"
  /\ \A u \in Tasks : u < t => pc[u] # "idle" /\ ev[u] <= e
  /\ ev' = [ev EXCEPT ![t] = e]
  /\ tkeys' = [tkeys EXCEPT ![t] = extractCorrelationKeys(EventData[e])]
  /\ pc' = [pc EXCEPT ![t] = "wait"]
  /\ UNCHANGED << now, heap, correlations, mu, found, ret, sweepVars, readVars >>
  /\ EngineOnly

\* c.mu.Lock()
CorrelateLock(t) ==
  /\ pc[t] = "wait"
  /\ CanLock
  /\ mu' = [mu EXCEPT !.w = TRUE]
  /\ pc' = [pc EXCEPT ![t] = "scan"]
  /\ UNCHANGED << now, heap, correlations, ev, tkeys, found, ret, sweepVars,
                  readVars >>
  /\ EngineOnly

\* A scan that passes over the groups whose last update is older than the
\* TTL.
MatchingFresh(keys) ==
  {p \in Stored : matchesGroup(keys, heap[p]) /\ now - heap[p].UpdatedAt <= ttl}

\* The groups the range loop can stop at: map iteration order is
\* unspecified, so the first match found is any matching entry.
Matching(keys) == {p \in Stored : matchesGroup(keys, heap[p])}

\* for _, group := range c.correlations { if c.matchesGroup(keys, group) ...
CorrelateScan(t) ==
  /\ pc[t] = "scan"
  /\ IF Matching(tkeys[t]) # {}
     THEN \E p \in Matching(tkeys[t]) : found' = [found EXCEPT ![t] = p]
     ELSE found' = [found EXCEPT ![t] = Nil]
  /\ pc' = [pc EXCEPT ![t] = "act"]
  /\ UNCHANGED << now, heap, correlations, mu, ev, tkeys, ret, sweepVars,
                  readVars >>
  /\ EngineOnly

\* A matched branch that puts the event in front of the members.
AppendToFront(t, p) ==
  /\ heap' = [heap EXCEPT ![p].Events = << t >> \o @, ![p].UpdatedAt = now]
  /\ ret' = [ret EXCEPT ![t] = heap[p].ID]
  /\ UNCHANGED << now, correlations >>

\* The matched branch: append, bump UpdatedAt, return group.ID.
AppendTo(t, p) ==
  /\ heap' = [heap EXCEPT ![p].Events = Append(@, t), ![p].UpdatedAt = now]
  /\ ret' = [ret EXCEPT ![t] = heap[p].ID]
  /\ UNCHANGED << now, correlations >>

\* A creation that reads the clock for UpdatedAt before it reads it for
\* CreatedAt.
CreateGroupUpdatedFirst(t) ==
  \E u \in now..Min(now + 1, MaxNow) : \E c \in u..Min(now + 1, MaxNow) :
    LET groupID == generateCorrelationID(tkeys[t], now)
        group == [ID |-> groupID, Events |-> << t >>, CreatedAt |-> c,
                  UpdatedAt |-> u, Keys |-> tkeys[t]]
    IN /\ heap' = Append(heap, group)
       /\ correlations' =
            [id \in DOMAIN correlations \cup {groupID} |->
               IF id = groupID THEN Len(heap) + 1 ELSE correlations[id]]
       /\ ret' = [ret EXCEPT ![t] = groupID]
       /\ now' = c

\* A creation that stores the first of the event's keys only.
CreateGroupFirstKey(t) ==
  \E c \in now..Min(now + 1, MaxNow) : \E u \in c..Min(now + 1, MaxNow) :
    LET groupID == generateCorrelationID(tkeys[t], now)
        group == [ID |-> groupID, Events |-> << t >>, CreatedAt |-> c,
                  UpdatedAt |-> u, Keys |-> SubSeq(tkeys[t], 1, 1)]
    IN /\ heap' = Append(heap, group)
       /\ correlations' =
            [id \in DOMAIN correlations \cup {groupID} |->
               IF id = groupID THEN Len(heap) + 1 ELSE correlations[id]]
       /\ ret' = [ret EXCEPT ![t] = groupID]
       /\ now' = u

\* The no-match branch.  The clock is read three times, for the identifier,
\* CreatedAt and UpdatedAt, and may advance in between.
CreateGroup(t) ==
  \E c \in now..Min(now + 1, MaxNow) : \E u \in c..Min(now + 1, MaxNow) :
    LET groupID == generateCorrelationID(tkeys[t], now)
        group == [ID |-> groupID, Events |-> << t >>, CreatedAt |-> c,
                  UpdatedAt |-> u, Keys |-> tkeys[t]]
    IN /\ heap' = Append(heap, group)
       /\ correlations' =
            [id \in DOMAIN correlations \cup {groupID} |->
               IF id = groupID THEN Len(heap) + 1 ELSE correlations[id]]
       /\ ret' = [ret EXCEPT ![t] = groupID]
       /\ now' = u

\* A loop that does not return at the first match: the event is appended to
\* every matching group.
CorrelateActEvery(t) ==
  /\ pc[t] = "act"
  /\ IF found[t] # Nil
     THEN /\ heap' = [p \in DOMAIN heap |->
                        IF p \in Matching(tkeys[t])
                        THEN [heap[p] EXCEPT !.Events = Append(@, t),
                                             !.UpdatedAt = now]
                        ELSE heap[p]]
          /\ ret' = [ret EXCEPT ![t] = heap[found[t]].ID]
          /\ UNCHANGED << now, correlations >>
     ELSE CreateGroup(t)
  /\ mu' = [mu EXCEPT !.w = FALSE]
  /\ pc' = [pc EXCEPT ![t] = "done"]
  /\ UNCHANGED << ev, tkeys, found, sweepVars, readVars >>
  /\ EngineOnly

\* What follows the scan, and the deferred Unlock.
CorrelateAct(t) ==
  /\ pc[t] = "act"
  /\ IF found[t] # Nil THEN AppendTo(t, found[t]) ELSE CreateGroup(t)
  /\ mu' = [mu EXCEPT !.w = FALSE]
  /\ pc' = [pc EXCEPT ![t] = "done"]
  /\ UNCHANGED << ev, tkeys, found, sweepVars, readVars >>
  /\ EngineOnly

\* -------------------------------------------------------------------- cleanup
\* A sweep that takes a lock of its own, which keeps no Correlate call out.
CleanupLockSeparate ==
  /\ spc = "tick"
  /\ spc' = "cs"
  /\ UNCHANGED << now, heap, correlations, mu, taskVars, evicted, readVars >>
  /\ EngineOnly

\* The ticker fires and the goroutine takes the lock.
CleanupLock ==
  /\ spc = "tick"
  /\ CanLock
  /\ mu' = [mu EXCEPT !.w = TRUE]
  /\ spc' = "cs"
  /\ UNCHANGED << now, heap, correlations, taskVars, evicted, readVars >>
  /\ EngineOnly

\* An expiry test that is late by one clock reading.
ExpiredLate(group, t) == t - group.UpdatedAt > ttl + 1

\* now.Sub(group.UpdatedAt) > c.ttl
Expired(group, t) == t - group.UpdatedAt > ttl

\* now := time.Now(); delete every expired entry; Unlock.
CleanupBody ==
  /\ spc = "cs"
  /\ LET gone == {id \in DOMAIN correlations :
                    Expired(heap[correlations[id]], now)} IN
       /\ correlations' = [id \in DOMAIN correlations \ gone |-> correlations[id]]
       /\ evicted' =
            [p \in DOMAIN evicted \cup {correlations[id] : id \in gone} |->
               IF p \in DOMAIN evicted THEN evicted[p] ELSE Len(heap)]
  /\ mu' = [mu EXCEPT !.w = FALSE]
  /\ spc' = "tick"
  /\ UNCHANGED << now, heap, taskVars, readVars >>
  /\ EngineOnly

\* ------------------------------------------------- GetGroup, GetActiveGroups
\* The identifiers a caller can hold: those Correlate has returned, and one
\* that names no group.
KnownIDs == {ret[t] : t \in {u \in Tasks : pc[u] = "done"}} \cup {NoID}

\* A caller keeps the result of its last call only: what it held before is
\* dropped when it calls again.
\* GetGroup: c.mu.RLock()
GetGroupRLock(r, id) ==
  /\ rpc[r] = "idle"
  /\ CanRLock
  /\ mu' = [mu EXCEPT !.r = @ + 1]
  /\ rpc' = [rpc EXCEPT ![r] = "get"]
  /\ rid' = [rid EXCEPT ![r] = id]
  /\ got' = [got EXCEPT ![r] = Nil]
  /\ listed' = [listed EXCEPT ![r] = << >>]
  /\ UNCHANGED << now, heap, correlations, taskVars, sweepVars >>
  /\ EngineOnly

\* return c.correlations[id], and the deferred RUnlock.
GetGroupBody(r) ==
  /\ rpc[r] = "get"
  /\ got' = [got EXCEPT ![r] =
               IF rid[r] \in DOMAIN correlations THEN correlations[rid[r]] ELSE Nil]
  /\ mu' = [mu EXCEPT !.r = @ - 1]
  /\ rpc' = [rpc EXCEPT ![r] = "idle"]
  /\ rid' = [rid EXCEPT ![r] = NoID]
  /\ UNCHANGED << now, heap, correlations, taskVars, sweepVars, listed >>
  /\ EngineOnly

\* GetActiveGroups: c.mu.RLock()
GetActiveGroupsRLock(r) ==
  /\ rpc[r] = "idle"
  /\ CanRLock
  /\ mu' = [mu EXCEPT !.r = @ + 1]
  /\ rpc' = [rpc EXCEPT ![r] = "list"]
  /\ got' = [got EXCEPT ![r] = Nil]
  /\ listed' = [listed EXCEPT ![r] = << >>]
  /\ UNCHANGED << now, heap, correlations, taskVars, sweepVars, rid >>
  /\ EngineOnly

\* The slices that hold each pointer of S once, in any order.
Orders(S) ==
  {s \in [1..Cardinality(S) -> S] : \A i, j \in DOMAIN s : s[i] = s[j] => i = j}

\* The loop that appends every stored pointer to the result, in map
\* iteration order, and the deferred RUnlock.
GetActiveGroupsBody(r) ==
  /\ rpc[r] = "list"
  /\ \E s \in Orders(Stored) : listed' = [listed EXCEPT ![r] = s]
  /\ mu' = [mu EXCEPT !.r = @ - 1]
  /\ rpc' = [rpc EXCEPT ![r] = "idle"]
  /\ UNCHANGED << now, heap, correlations, taskVars, sweepVars, rid, got >>
  /\ EngineOnly

\* ------------------------------------------------------------- the pipeline
\* The tasks Pipeline.Start can spawn in one run: one per raw event sent.
PipeTasks == 1..Min(MaxEvents, MaxTasks)

\* The answers the AI provider gives in a run of the pipeline.
Responses == {ProviderError, Unparseable, Answer(Judgment(95, "critical"))}

\* A send that does not wait for room in the channel.
CanSendUnbuffered(ch, capacity) == TRUE

\* ch <- v proceeds when the buffered channel holds fewer than cap(ch)
\* elements, and blocks otherwise.
CanSend(ch, capacity) == Len(ch) < capacity

\* A collector hands over its next raw event (output <- event).  Events are
\* named by their position in the order of sending.
CollectorSend ==
  /\ sent < MaxEvents
  /\ CanSend(eventChan, eventChanCap)
  /\ eventChan' = Append(eventChan, sent + 1)
  /\ sent' = sent + 1
  /\ UNCHANGED << outputChan, running, stage, raw, resp, ai, enr >>
  /\ StagesOnly

\* A receive that goes on after the loop has taken the shutdown branch.
StartReceiveAfterReturn ==
  /\ eventChan # << >>
  /\ \E t \in PipeTasks :
       /\ stage[t] = "none"
       /\ \A u \in PipeTasks : u < t => stage[u] # "none"
       /\ stage' = [stage EXCEPT ![t] = "analyze"]
       /\ raw' = [raw EXCEPT ![t] = Head(eventChan)]
  /\ eventChan' = Tail(eventChan)
  /\ UNCHANGED << outputChan, sent, running, resp, ai, enr >>
  /\ StagesOnly

\* Pipeline.Start, case rawEvent := <-p.eventChan: go p.processEvent(...)
StartReceive ==
  /\ running
  /\ eventChan # << >>
  /\ \E t \in PipeTasks :
       /\ stage[t] = "none"
       /\ \A u \in PipeTasks : u < t => stage[u] # "none"
       /\ stage' = [stage EXCEPT ![t] = "analyze"]
       /\ raw' = [raw EXCEPT ![t] = Head(eventChan)]
  /\ eventChan' = Tail(eventChan)
  /\ UNCHANGED << outputChan, sent, running, resp, ai, enr >>
  /\ StagesOnly

\* Pipeline.Start, case <-ctx.Done(): return
StartReturn ==
  /\ running
  /\ running' = FALSE
  /\ UNCHANGED << eventChan, outputChan, sent, stage, raw, resp, ai, enr >>
  /\ StagesOnly

\* processEvent, step 1: the analysis of the raw event; an error is logged
\* and the task goes on with a nil analysis.
Analyze(t) ==
  /\ stage[t] = "analyze"
  /\ \E response \in Responses :
       /\ resp' = [resp EXCEPT ![t] = response]
       /\ ai' = [ai EXCEPT ![t] = AnalyzeRawEvent(response).analysis]
  /\ stage' = [stage EXCEPT ![t] = "normalize"]
  /\ UNCHANGED << eventChan, outputChan, sent, running, raw, enr >>
  /\ StagesOnly

\* A step 2 whose error report ends the whole process (a Fatal log call):
\* every task under way dies with the failing one and the loop stops.
NormalizeStepFatal(t) ==
  /\ stage[t] = "normalize"
  /\ IF Normalize(schema, raw[t]).err
     THEN /\ stage' = [u \in Tasks |->
                         IF stage[u] \in {"none", "finished"} THEN stage[u]
                         ELSE "dropped"]
          /\ running' = FALSE
     ELSE /\ stage' = [stage EXCEPT ![t] = "enrich"]
          /\ UNCHANGED running
  /\ UNCHANGED << eventChan, outputChan, sent, raw, resp, ai, enr >>
  /\ StagesOnly

\* A step 2 that goes on with the event when normalization fails.
NormalizeStepNoReturn(t) ==
  /\ stage[t] = "normalize"
  /\ stage' = [stage EXCEPT ![t] = "enrich"]
  /\ UNCHANGED << eventChan, outputChan, sent, running, raw, resp, ai, enr >>
  /\ StagesOnly

\* processEvent, step 2: Normalize; on error the task logs and returns.
\* The locals of a task that has returned are gone.
NormalizeStep(t) ==
  /\ stage[t] = "normalize"
  /\ IF Normalize(schema, raw[t]).err
     THEN /\ stage' = [stage EXCEPT ![t] = "dropped"]
          /\ resp' = [resp EXCEPT ![t] = NoResponse]
          /\ ai' = [ai EXCEPT ![t] = NilAnalysis]
     ELSE /\ stage' = [stage EXCEPT ![t] = "enrich"]
          /\ UNCHANGED << resp, ai >>
  /\ UNCHANGED << eventChan, outputChan, sent, running, raw, enr >>
  /\ StagesOnly

\* processEvent, step 3: Enrich; any of the sources may fail.
EnrichStep(t) ==
  /\ stage[t] = "enrich"
  /\ \E failing \in SUBSET {sources[i].name : i \in DOMAIN sources} :
       enr' = [enr EXCEPT ![t] = Enrich(sources, failing)]
  /\ stage' = [stage EXCEPT ![t] = "correlate"]
  /\ UNCHANGED << eventChan, outputChan, sent, running, raw, resp, ai >>
  /\ StagesOnly

\* processEvent, step 4: the call of Correlate with the normalized event, up
\* to the Lock; CorrelateLock, CorrelateScan and CorrelateAct carry it on.
CorrelateStep(t) ==
  /\ stage[t] = "correlate"
  /\ pc[t] = "idle"
  /\ tkeys' = [tkeys EXCEPT ![t] =
                 extractCorrelationKeys(Normalize(schema, raw[t]).Data)]
  /\ pc' = [pc EXCEPT ![t] = "wait"]
  /\ UNCHANGED << now, heap, correlations, mu, ev, found, ret, sweepVars,
                  readVars >>
  /\ EngineOnly

\* A task that sends its record as soon as the event is enriched, without
\* the identifier of a group.
EmitBeforeCorrelate(t) ==
  /\ stage[t] = "correlate"
  /\ pc[t] = "idle"
  /\ CanSend(outputChan, outputChanCap)
  /\ outputChan' =
       Append(outputChan,
              ProcessedEvent(raw[t], ai[t], Normalize(schema, raw[t]), enr[t],
                             NoID))
  /\ stage' = [stage EXCEPT ![t] = "finished"]
  /\ resp' = [resp EXCEPT ![t] = NoResponse]
  /\ ai' = [ai EXCEPT ![t] = NilAnalysis]
  /\ enr' = [enr EXCEPT ![t] = NoEnrichments]
  /\ UNCHANGED << eventChan, sent, running, raw >>
  /\ StagesOnly

\* processEvent after Correlate has returned: build the ProcessedEvent,
\* score it, copy the tags and send it (p.outputChan <- processed).  The
\* task then returns and its locals, Correlate's result included, are gone.
Emit(t) ==
  /\ stage[t] = "correlate"
  /\ pc[t] = "done"
  /\ CanSend(outputChan, outputChanCap)
  /\ outputChan' =
       Append(outputChan,
              ProcessedEvent(raw[t], ai[t], Normalize(schema, raw[t]), enr[t],
                             ret[t]))
  /\ stage' = [stage EXCEPT ![t] = "finished"]
  /\ resp' = [resp EXCEPT ![t] = NoResponse]
  /\ ai' = [ai EXCEPT ![t] = NilAnalysis]
  /\ enr' = [enr EXCEPT ![t] = NoEnrichments]
  /\ pc' = [pc EXCEPT ![t] = "idle"]
  /\ tkeys' = [tkeys EXCEPT ![t] = << >>]
  /\ found' = [found EXCEPT ![t] = Nil]
  /\ ret' = [ret EXCEPT ![t] = NoID]
  /\ UNCHANGED << eventChan, sent, running, raw >>
  /\ UNCHANGED << now, heap, correlations, mu, ev, sweepVars, readVars,
                  schema, enrichVars, riskVars, keyVars, obsVars, mainVars >>

\* ------------------------------------------------------------ specifications
WritersOn(tasks, types) ==
  \/ Tick
  \/ \E t \in tasks : \E e \in types : CorrelateCall(t, e)
  \/ \E t \in tasks : CorrelateLock(t)
  \/ \E t \in tasks : CorrelateScan(t)
  \/ \E t \in tasks : CorrelateAct(t)
  \/ CleanupLock
  \/ CleanupBody

\* The correlation engine under its writers: the processing tasks and the
\* cleanup goroutine.
Next == WritersOn(Tasks, EventTypes)

Spec == Init /\ [][Next]_vars

QueriesBy(readers) ==
  \/ \E r \in readers : \E id \in KnownIDs : GetGroupRLock(r, id)
  \/ \E r \in readers : GetGroupBody(r)
  \/ \E r \in readers : GetActiveGroupsRLock(r)
  \/ \E r \in readers : GetActiveGroupsBody(r)

\* The engine with its query interface in use as well: QueriedTasks events
\* that carry one key (type 1) or none (type 4), and one goroutine that
\* keeps calling GetGroup and GetActiveGroups.
QueriedTypes == {1, 4}
NextQ == WritersOn(1..QueriedTasks, QueriedTypes) \/ QueriesBy({1})

\* Time passes and a goroutine that holds the lock runs on to its Unlock.
\* The ticker keeps firing, and the cleanup goroutine, blocked in Lock(),
\* gets the lock: a pending Lock() keeps later RLock() calls out, so readers
\* that come and go cannot starve it.
Fairness ==
  /\ WF_vars(Tick)
  /\ SF_vars(CleanupLock)
  /\ WF_vars(CleanupBody)
  /\ \A t \in Tasks : WF_vars(CorrelateScan(t)) /\ WF_vars(CorrelateAct(t))
  /\ \A r \in Readers : WF_vars(GetGroupBody(r)) /\ WF_vars(GetActiveGroupsBody(r))

LiveSpec == Init /\ [][NextQ]_vars /\ Fairness

\* The engine with every reader goroutine calling the queries, at once or
\* one after the other, while events that carry the same key are correlated
\* and the sweep runs.
NextL == WritersOn(1..QueriedTasks, {1}) \/ QueriesBy(Readers)

LockSpec == Init /\ [][NextL]_vars

\* The pipeline: collectors, the receive loop, and one task per event going
\* through the stages of processEvent and its call of Correlate.  The clock
\* advances only between the readings Correlate takes, and the cleanup
\* goroutine, whose effect on the table Spec and LiveSpec cover, is left
\* waiting for its ticker.
PipeNext ==
  \/ CollectorSend
  \/ StartReceive
  \/ StartReturn
  \/ \E t \in PipeTasks : Analyze(t)
  \/ \E t \in PipeTasks : NormalizeStep(t)
  \/ \E t \in PipeTasks : EnrichStep(t)
  \/ \E t \in PipeTasks : CorrelateStep(t)
  \/ \E t \in PipeTasks : CorrelateLock(t)
  \/ \E t \in PipeTasks : CorrelateScan(t)
  \/ \E t \in PipeTasks : CorrelateAct(t)
  \/ \E t \in PipeTasks : Emit(t)

\* The pipeline as constructed from a configuration of the normalizer that
\* names a supported schema or an unsupported one.
PipeSchemas == {"ecs", "cef"}
PipeInit ==
  /\ NewCorrelator /\ NewPipeline /\ NoCalls
  /\ schema \in PipeSchemas
  /\ sources = DefaultSources
  /\ judgment = NilAnalysis
  /\ canon = Normalize("ocsf", 1)

\* Every goroutine that can take a step eventually takes it; a task blocked
\* in Lock() gets the lock although others keep taking it (sync.Mutex hands
\* the lock to a starving waiter).  Nothing obliges a collector to send or
\* the context to be cancelled.
PipeFairness ==
  /\ WF_vars(StartReceive)
  /\ \A t \in PipeTasks :
       /\ WF_vars(Analyze(t) \/ NormalizeStep(t) \/ EnrichStep(t) \/ Emit(t))
       /\ WF_vars(CorrelateStep(t) \/ CorrelateScan(t) \/ CorrelateAct(t))
       /\ SF_vars(CorrelateLock(t))

PipeSpec == PipeInit /\ [][PipeNext]_vars /\ PipeFairness

\* ------------------------------------------------------------ calculateRisk
\* The arguments one call of calculateRisk is made with: no analysis, or an
\* analysis with a score (in hundredths) at, next to and between the
\* thresholds, and outside 0..100, whatever level the provider named; and a
\* normalized event of either schema.
Scores == {-5, 0, 5, 9, 10, 15, 39, 40, 50, 69, 70, 75, 89, 90, 95, 100, 120}
RiskInit ==
  /\ NewCorrelator /\ NewPipeline /\ NoCalls
  /\ schema = "ocsf"
  /\ sources = DefaultSources
  /\ judgment \in {NilAnalysis}
                  \cup {Judgment(sc, l) : sc \in Scores, l \in {"critical", "info"}}
  /\ canon \in {Normalize(sch, id) : sch \in {"ocsf", "ecs"}, id \in 1..MaxEvents}

\* processed.RiskScore, processed.RiskLevel = p.calculateRisk(aiAnalysis, normalized)
CalculateRiskCall ==
  /\ risk = << >>
  /\ risk' = calculateRisk(judgment, canon)
  /\ UNCHANGED << judgment, canon, engineVars, pipeVars, enrichVars, keyVars, obsVars,
                  mainVars >>

RiskSpec == RiskInit /\ [][CalculateRiskCall]_vars

\* ------------------------------------------------------------------- Enrich
\* An enricher built from any configuration of the four sources.
EnrichInit ==
  /\ NewCorrelator /\ NewPipeline /\ NoCalls
  /\ schema = "ocsf"
  /\ sources \in {NewEnricher(enabled) : enabled \in SUBSET NameSet}
  /\ judgment = NilAnalysis
  /\ canon = Normalize("ocsf", 1)

\* enrichments := make(map[string]interface{})
EnrichCall ==
  /\ epc = "idle"
  /\ epc' = "loop"
  /\ eidx' = 1
  /\ eout' = NoEnrichments
  /\ efail' = {}
  /\ UNCHANGED << sources, eret, engineVars, pipeVars, riskVars, keyVars, obsVars,
                  mainVars >>

\* One iteration of `for _, source := range e.sources`; the source's Enrich
\* returns its context or an error.
EnrichVisit ==
  /\ epc = "loop"
  /\ eidx <= Len(sources)
  /\ \E fails \in BOOLEAN :
       /\ eout' = EnrichOne(eout, sources[eidx], fails)
       /\ efail' = IF sources[eidx].enabled /\ fails
                   THEN efail \cup {sources[eidx].name} ELSE efail
  /\ eidx' = eidx + 1
  /\ UNCHANGED << sources, epc, eret, engineVars, pipeVars, riskVars, keyVars, obsVars,
                  mainVars >>

\* return enrichments, nil
EnrichReturn ==
  /\ epc = "loop"
  /\ eidx > Len(sources)
  /\ epc' = "returned"
  /\ eret' = "nil"
  /\ UNCHANGED << sources, eidx, eout, efail, engineVars, pipeVars, riskVars,
                  keyVars, obsVars, mainVars >>

EnrichNext == EnrichCall \/ EnrichVisit \/ EnrichReturn

EnrichSpec == EnrichInit /\ [][EnrichNext]_vars

\* ----------------------------------------------------------------------- main
\* The whole process: main from its first use of the configuration to its
\* return, the goroutines it starts (the sweep, Pipeline.Start, Manager.Start
\* and the collectors) and the processing tasks.
Collectors == 1..MaxCollectors
MainTasks == 1..Min(MaxCollected, MaxTasks)

\* NewAnthropicProvider / NewOpenAIProvider: an error when the environment
\* variable the configuration names for the API key is empty.
NewAnthropicProvider(cfg) == [err |-> ~cfg.keySet]
NewOpenAIProvider(cfg) == [err |-> ~cfg.keySet]

\* NewAnalyzer: the provider the configuration names, or an error for any
\* other name; the provider's error is passed on.
NewAnalyzer(cfg) ==
  IF cfg.provider = "anthropic" THEN [err |-> NewAnthropicProvider(cfg).err]
  ELSE IF cfg.provider = "openai" THEN [err |-> NewOpenAIProvider(cfg).err]
  ELSE [err |-> TRUE]

\* The provider names a configuration may hold.
Providers == {"anthropic", "openai", "bedrock"}

\* The context of main has been cancelled: cancel() is the last call before
\* main logs and returns.
ctxDone == mainpc \in {"stopping", "exited"}
\* The process exists and main is past the construction of the components.
Alive == mainpc \in {"serving", "stopping"}

\* The process before main has used its configuration: nothing constructed,
\* no goroutine started.  The collectors are interchangeable; the enabled
\* ones are numbered first.
MainInit ==
  /\ now = 0
  /\ heap = << >>
  /\ correlations = << >>
  /\ mu = [w |-> FALSE, r |-> 0]
  /\ pc = [t \in Tasks |-> "idle"]
  /\ ev = [t \in Tasks |-> 0]
  /\ tkeys = [t \in Tasks |-> << >>]
  /\ found = [t \in Tasks |-> Nil]
  /\ ret = [t \in Tasks |-> NoID]
  /\ spc = "none"
  /\ evicted = << >>
  /\ rpc = [r \in Readers |-> "idle"]
  /\ rid = [r \in Readers |-> NoID]
  /\ got = [r \in Readers |-> Nil]
  /\ listed = [r \in Readers |-> << >>]
  /\ eventChan = << >>
  /\ outputChan = << >>
  /\ sent = 0
  /\ running = FALSE
  /\ stage = [t \in Tasks |-> "none"]
  /\ raw = [t \in Tasks |-> 0]
  /\ resp = [t \in Tasks |-> NoResponse]
  /\ ai = [t \in Tasks |-> NilAnalysis]
  /\ enr = [t \in Tasks |-> NoEnrichments]
  /\ epc = "idle" /\ eidx = 0 /\ eout = NoEnrichments /\ efail = {}
  /\ eret = "none" /\ risk = << >> /\ kdata = NoData /\ kkeys = << >>
  /\ schema = "ocsf"
  /\ sources = DefaultSources
  /\ judgment = NilAnalysis
  /\ canon = Normalize("ocsf", 1)
  /\ aiCfg \in [provider : Providers, keySet : BOOLEAN]
  /\ mainpc = "init"
  /\ collectors \in {cfg \in [Collectors -> BOOLEAN] :
                        \A c, d \in Collectors : (c < d /\ cfg[d]) => cfg[c]}
  /\ cpc = [c \in Collectors |-> "none"]
  /\ mgr = "none"
  /\ atCancel = [t \in Tasks |-> "none"]
  /\ NoHealth /\ NoShutdown

MainOnly ==
  UNCHANGED << now, heap, correlations, mu, taskVars, evicted, readVars,
               pipeVars, enrichVars, riskVars, keyVars, obsVars >>

\* A main that logs the analyzer's error and goes on.
MainBootIgnoringError ==
  /\ mainpc = "init"
  /\ mainpc' = "serving"
  /\ spc' = "tick"
  /\ UNCHANGED << aiCfg, collectors, cpc, mgr, atCancel >>
  /\ MainOnly

\* main up to `go pipeline.Start(ctx)`: when NewAnalyzer fails, logger.Fatal
\* ends the process; otherwise the components are constructed, NewCorrelator
\* starting the cleanup goroutine, and the pipeline goroutine is created.
MainBoot ==
  /\ mainpc = "init"
  /\ IF NewAnalyzer(aiCfg).err
     THEN mainpc' = "fatal" /\ UNCHANGED spc
     ELSE mainpc' = "serving" /\ spc' = "tick"
  /\ UNCHANGED << aiCfg, collectors, cpc, mgr, atCancel >>
  /\ MainOnly

\* main from `<-quit` to cancel(): the signal arrives, the server is shut
\* down and the context is cancelled.
MainCancel ==
  /\ mainpc = "serving"
  /\ mainpc' = "stopping"
  /\ atCancel' = stage
  /\ UNCHANGED << aiCfg, collectors, cpc, mgr, spc >>
  /\ MainOnly

\* A main that blocks after cancel() instead of returning.
MainReturnNever ==
  /\ mainpc = "stopping"
  /\ UNCHANGED vars

\* What is left of a process that has exited: no goroutine, no memory.
Gone ==
  /\ now' = 0
  /\ heap' = << >>
  /\ correlations' = << >>
  /\ mu' = [w |-> FALSE, r |-> 0]
  /\ pc' = [t \in Tasks |-> "idle"]
  /\ ev' = [t \in Tasks |-> 0]
  /\ tkeys' = [t \in Tasks |-> << >>]
  /\ found' = [t \in Tasks |-> Nil]
  /\ ret' = [t \in Tasks |-> NoID]
  /\ spc' = "none"
  /\ evicted' = << >>
  /\ eventChan' = << >>
  /\ outputChan' = << >>
  /\ sent' = 0
  /\ running' = FALSE
  /\ stage' = [t \in Tasks |-> "none"]
  /\ raw' = [t \in Tasks |-> 0]
  /\ resp' = [t \in Tasks |-> NoResponse]
  /\ ai' = [t \in Tasks |-> NilAnalysis]
  /\ enr' = [t \in Tasks |-> NoEnrichments]
  /\ cpc' = [c \in Collectors |-> "none"]
  /\ mgr' = "none"
  /\ atCancel' = [t \in Tasks |-> "none"]

\* main returns after cancel(): the process exits, and every goroutine ends
\* with it wherever it stands.
MainReturn ==
  /\ mainpc = "stopping"
  /\ mainpc' = "exited"
  /\ Gone
  /\ UNCHANGED << aiCfg, collectors, schema, readVars, enrichVars, riskVars,
                  keyVars, obsVars >>

\* Pipeline.Start up to its loop: go p.ingestion.Start(ctx, p.eventChan)
PipelineStart ==
  /\ Alive
  /\ mgr = "none"
  /\ ~running
  /\ mgr' = "spawned"
  /\ running' = TRUE
  /\ UNCHANGED << aiCfg, mainpc, collectors, cpc, atCancel >>
  /\ UNCHANGED << engineVars, schema, eventChan, outputChan, sent, stage, raw,
                  resp, ai, enr, enrichVars, riskVars, keyVars, obsVars >>

\* A Manager.Start that runs every collector of the configuration.
ManagerStartAll ==
  /\ Alive
  /\ mgr = "spawned"
  /\ mgr' = "returned"
  /\ cpc' = [c \in Collectors |-> "collect"]
  /\ UNCHANGED << aiCfg, mainpc, collectors, atCancel, spc >>
  /\ MainOnly

\* Manager.Start: one goroutine running Collect for every enabled collector.
ManagerStart ==
  /\ Alive
  /\ mgr = "spawned"
  /\ mgr' = "returned"
  /\ cpc' = [c \in Collectors |-> IF collectors[c] THEN "collect" ELSE "none"]
  /\ UNCHANGED << aiCfg, mainpc, collectors, atCancel, spc >>
  /\ MainOnly

\* Collect: <-ctx.Done(); return nil
CollectorReturn(c) ==
  /\ Alive
  /\ cpc[c] = "collect"
  /\ ctxDone
  /\ cpc' = [cpc EXCEPT ![c] = "returned"]
  /\ UNCHANGED << aiCfg, mainpc, collectors, mgr, atCancel, spc >>
  /\ MainOnly

\* A collector that is running hands over a raw event.
SourceSend ==
  /\ Alive
  /\ \E c \in Collectors : cpc[c] = "collect"
  /\ sent < MaxCollected
  /\ CollectorSend

\* Pipeline.Start, case <-ctx.Done(), which is ready once cancel() was called.
StartDone == Alive /\ ctxDone /\ StartReturn

\* The steps of the goroutines of a process that has not exited.
Running(step) == Alive /\ step

\* main's way into steady state, and the goroutines that start others.
Startup ==
  \/ MainBoot
  \/ PipelineStart
  \/ ManagerStart

\* The shutdown: the cancellation, what observes it, and main's return.
Shutdown ==
  \/ MainCancel
  \/ MainReturn
  \/ \E c \in Collectors : CollectorReturn(c)
  \/ StartDone

\* The way of an event from a collector to the output queue.
Processing ==
  \/ SourceSend
  \/ Running(StartReceive)
  \/ \E t \in MainTasks : Running(Analyze(t))
  \/ \E t \in MainTasks : Running(NormalizeStep(t))
  \/ \E t \in MainTasks : Running(EnrichStep(t))
  \/ \E t \in MainTasks : Running(CorrelateStep(t))
  \/ \E t \in MainTasks : Running(CorrelateLock(t))
  \/ \E t \in MainTasks : Running(CorrelateScan(t))
  \/ \E t \in MainTasks : Running(CorrelateAct(t))
  \/ \E t \in MainTasks : Running(Emit(t))

\* The cleanup goroutine of the process.
Sweeps ==
  \/ Running(CleanupLock)
  \/ Running(CleanupBody)

MainNext == Startup \/ Shutdown \/ Processing \/ Sweeps

\* main runs on, from its start and after cancel(); the goroutines it
\* created are scheduled; a collector woken by the cancellation returns.
\* Nothing obliges the signal to arrive.
MainFairness ==
  /\ WF_vars(MainBoot)
  /\ WF_vars(MainReturn)
  /\ WF_vars(PipelineStart)
  /\ WF_vars(ManagerStart)
  /\ \A c \in Collectors : WF_vars(CollectorReturn(c))

\* The whole process, from startup to exit.
MainSpec == MainInit /\ [][MainNext]_vars /\ MainFairness

\* The process from startup on for as long as no signal arrives.
BootNext == Startup \/ Processing \/ Sweeps

BootSpec == MainInit /\ [][BootNext]_vars /\ WF_vars(MainBoot)

\* The life of the collectors: startup and shutdown of a process whose
\* collectors, as those of the repository, wait for the cancellation and
\* send nothing.
IngestNext == Startup \/ Shutdown

IngestSpec == MainInit /\ [][IngestNext]_vars /\ MainFairness

\* The life of the cleanup goroutine: the correlator of a process that
\* starts, correlates events carrying the same key while time passes, and
\* is shut down.
SweepNext ==
  \/ MainBoot
  \/ MainCancel
  \/ MainReturn
  \/ Running(Tick)
  \/ \E t \in 1..QueriedTasks : Running(CorrelateCall(t, 1))
  \/ \E t \in 1..QueriedTasks : Running(CorrelateLock(t))
  \/ \E t \in 1..QueriedTasks : Running(CorrelateScan(t))
  \/ \E t \in 1..QueriedTasks : Running(CorrelateAct(t))
  \/ Sweeps

\* main runs on; the ticker keeps firing and the cleanup goroutine gets the
\* lock and runs its sweep to the end.
SweepFairness ==
  /\ WF_vars(MainBoot)
  /\ WF_vars(MainReturn)
  /\ SF_vars(Running(CleanupLock))
  /\ WF_vars(Running(CleanupBody))
  /\ \A t \in 1..QueriedTasks :
       WF_vars(Running(CorrelateScan(t))) /\ WF_vars(Running(CorrelateAct(t)))

SweepSpec == MainInit /\ [][SweepNext]_vars /\ SweepFairness

\* ----------------------------------------------------- extractCorrelationKeys
\* The attributes the function looks at, with the kind each gives its key,
\* and one it does not look at.
KeyAttrs == << "source_ip", "user", "hostname", "file_hash", "domain" >>
KeyKinds == << "ip", "user", "host", "hash", "domain" >>
OtherAttrs == {"dest_ip"}
\* The values an attribute is given: not a string, the empty string, and
\* two strings.
AttrValues == {NonStr, Str(""), Str("a"), Str("b")}

\* An event whose attribute map has any of those attributes, each with any
\* of those values.
KeyInit ==
  /\ NewCorrelator /\ NewPipeline /\ Idle /\ NoHealth /\ NoShutdown
  /\ schema = "ocsf"
  /\ sources = DefaultSources
  /\ judgment = NilAnalysis
  /\ canon = Normalize("ocsf", 1)
  /\ kdata \in UNION {[A -> AttrValues] :
                        A \in SUBSET ({KeyAttrs[i] : i \in DOMAIN KeyAttrs}
                                        \cup OtherAttrs)}

\* keys := c.extractCorrelationKeys(event)
ExtractCall ==
  /\ Len(kkeys) < KeyCalls
  /\ kkeys' = Append(kkeys, extractCorrelationKeys(kdata))
  /\ UNCHANGED << kdata, engineVars, pipeVars, enrichVars, riskVars, mainVars,
                  obsVars >>

KeySpec == KeyInit /\ [][ExtractCall]_vars

\* ------------------------------------------------------ HealthChecker.Check
\* The names of the checks registered: h.checks is a map, one entry per name.
CheckNames == DOMAIN checks

\* Everything but the health checker is as constructed and stays so.
HealthOnly ==
  UNCHANGED << engineVars, pipeVars, enrichVars, riskVars, keyVars, mainVars,
               telVars >>

\* A HealthChecker with up to MaxChecks checks registered, critical or not,
\* before Check is called.
HealthInit ==
  /\ NewCorrelator /\ NewPipeline /\ Idle /\ kdata = NoData /\ NoShutdown
  /\ schema = "ocsf"
  /\ sources = DefaultSources
  /\ judgment = NilAnalysis
  /\ canon = Normalize("ocsf", 1)
  /\ checks \in UNION {[1..n -> BOOLEAN] : n \in 0..MaxChecks}
  /\ hcall = "idle"
  /\ hgo = [c \in DOMAIN checks |-> "none"]
  /\ herr = [c \in DOMAIN checks |-> FALSE]
  /\ status = "healthy"
  /\ components = << >>
  /\ lastStatus = << >>

\* Check: the copy of h.checks under the read lock, and the fresh status.
CheckCall ==
  /\ hcall = "idle"
  /\ hcall' = "spawn"
  /\ status' = "healthy"
  /\ components' = << >>
  /\ UNCHANGED << checks, hgo, herr, lastStatus >>
  /\ HealthOnly

\* for _, check := range checks { wg.Add(1); go func(c HealthCheck) ... }:
\* the loop starts a goroutine for the next check, in map iteration order,
\* and goes on without waiting for it.
CheckSpawn(c) ==
  /\ hcall = "spawn"
  /\ hgo[c] = "none"
  /\ hgo' = [hgo EXCEPT ![c] = "run"]
  /\ UNCHANGED << checks, hcall, herr, status, components, lastStatus >>
  /\ HealthOnly

\* The loop is over: wg.Wait().
CheckWait ==
  /\ hcall = "spawn"
  /\ \A c \in CheckNames : hgo[c] # "none"
  /\ hcall' = "wait"
  /\ UNCHANGED << checks, hgo, herr, status, components, lastStatus >>
  /\ HealthOnly

\* The goroutine of check c: err := c.Check(checkCtx), which fails (an
\* error of its own, or its timeout) or not.
CheckRun(c) ==
  /\ hgo[c] = "run"
  /\ \E failed \in BOOLEAN : herr' = [herr EXCEPT ![c] = failed]
  /\ hgo' = [hgo EXCEPT ![c] = "lock"]
  /\ UNCHANGED << checks, hcall, status, components, lastStatus >>
  /\ HealthOnly

\* A record whose last failure decides: a failed non-critical check sets
\* "degraded" whatever the status was.
CheckRecordLastWins(c) ==
  /\ hgo[c] = "lock"
  /\ components' =
       [n \in DOMAIN components \cup {c} |->
          IF n = c THEN (IF herr[c] THEN "unhealthy" ELSE "healthy")
          ELSE components[n]]
  /\ status' = IF ~herr[c] THEN status
               ELSE IF checks[c] THEN "unhealthy" ELSE "degraded"
  /\ hgo' = [hgo EXCEPT ![c] = "done"]
  /\ UNCHANGED << checks, hcall, herr, lastStatus >>
  /\ HealthOnly

\* The goroutine of check c, between mu.Lock() and mu.Unlock(), and its
\* deferred wg.Done(): the component entry, and the overall status.
CheckRecord(c) ==
  /\ hgo[c] = "lock"
  /\ components' =
       [n \in DOMAIN components \cup {c} |->
          IF n = c THEN (IF herr[c] THEN "unhealthy" ELSE "healthy")
          ELSE components[n]]
  /\ status' = IF ~herr[c] THEN status
               ELSE IF checks[c] THEN "unhealthy"
               ELSE IF status = "healthy" THEN "degraded"
               ELSE status
  /\ hgo' = [hgo EXCEPT ![c] = "done"]
  /\ UNCHANGED << checks, hcall, herr, lastStatus >>
  /\ HealthOnly

\* wg.Wait() returns when every goroutine has called Done; h.lastStatus is
\* set and the status returned.
CheckReturn ==
  /\ hcall = "wait"
  /\ \A c \in CheckNames : hgo[c] = "done"
  /\ hcall' = "returned"
  /\ lastStatus' = [Status |-> status, Components |-> components]
  /\ UNCHANGED << checks, hgo, herr, status, components >>
  /\ HealthOnly

HealthNext ==
  \/ CheckCall
  \/ \E c \in CheckNames : CheckSpawn(c)
  \/ CheckWait
  \/ \E c \in CheckNames : CheckRun(c)
  \/ \E c \in CheckNames : CheckRecord(c)
  \/ CheckReturn

HealthSpec == HealthInit /\ [][HealthNext]_vars

\* -------------------------------------------------------- Telemetry.Shutdown
ShutdownCalls == 1..MaxShutdownCalls

TelemetryOnly ==
  UNCHANGED << engineVars, pipeVars, enrichVars, riskVars, keyVars, mainVars,
               healthVars >>

\* A Telemetry with up to MaxShutdownFns shutdown functions, each of which
\* fails or not when it is called.
TelemetryInit ==
  /\ NewCorrelator /\ NewPipeline /\ Idle /\ kdata = NoData /\ NoHealth
  /\ schema = "ocsf"
  /\ sources = DefaultSources
  /\ judgment = NilAnalysis
  /\ canon = Normalize("ocsf", 1)
  /\ shutdownFns \in UNION {[1..n -> BOOLEAN] : n \in 0..MaxShutdownFns}
  /\ shutdownOnce = "fresh"
  /\ scall = [k \in ShutdownCalls |-> "idle"]
  /\ sidx = 0
  /\ serr = [k \in ShutdownCalls |-> FALSE]
  /\ sret = [k \in ShutdownCalls |-> "none"]
  /\ ran = [i \in DOMAIN shutdownFns |-> 0]
  /\ first = 0

\* A Do that runs its function on every call.
ShutdownCallEveryTime(k) ==
  /\ scall[k] = "idle"
  /\ shutdownOnce # "running"
  /\ scall' = [scall EXCEPT ![k] = "loop"]
  /\ shutdownOnce' = "running"
  /\ sidx' = 1
  /\ first' = k
  /\ UNCHANGED << shutdownFns, serr, sret, ran >>
  /\ TelemetryOnly

\* Shutdown: var err error; t.shutdownOnce.Do(...).  The first call to get
\* there runs the function; a call that arrives while it runs waits in Do
\* for it to finish; a call that arrives later finds the Once done.
ShutdownCall(k) ==
  /\ scall[k] = "idle"
  /\ CASE shutdownOnce = "fresh" ->
            /\ scall' = [scall EXCEPT ![k] = "loop"]
            /\ shutdownOnce' = "running"
            /\ sidx' = 1
            /\ first' = k
       [] shutdownOnce = "running" ->
            /\ scall' = [scall EXCEPT ![k] = "blocked"]
            /\ UNCHANGED << shutdownOnce, sidx, first >>
       [] shutdownOnce = "done" ->
            /\ scall' = [scall EXCEPT ![k] = "back"]
            /\ UNCHANGED << shutdownOnce, sidx, first >>
  /\ UNCHANGED << shutdownFns, serr, sret, ran >>
  /\ TelemetryOnly

\* for _, fn := range t.shutdownFns { if e := fn(ctx); e != nil { err = e } }
ShutdownRunFn(k) ==
  /\ scall[k] = "loop"
  /\ sidx \in DOMAIN shutdownFns
  /\ ran' = [ran EXCEPT ![sidx] = @ + 1]
  /\ serr' = [serr EXCEPT ![k] = IF shutdownFns[sidx] THEN TRUE ELSE @]
  /\ sidx' = sidx + 1
  /\ UNCHANGED << shutdownFns, shutdownOnce, scall, sret, first >>
  /\ TelemetryOnly

\* The loop is over: t.logger.Sync(), the function returns and Do marks the
\* Once done.
ShutdownOnceDone(k) ==
  /\ scall[k] = "loop"
  /\ sidx \notin DOMAIN shutdownFns
  /\ shutdownOnce' = "done"
  /\ scall' = [scall EXCEPT ![k] = "back"]
  /\ sidx' = 0
  /\ UNCHANGED << shutdownFns, serr, sret, ran, first >>
  /\ TelemetryOnly

\* A call that waited in Do gets out once the function has returned.
ShutdownUnblock(k) ==
  /\ scall[k] = "blocked"
  /\ shutdownOnce = "done"
  /\ scall' = [scall EXCEPT ![k] = "back"]
  /\ UNCHANGED << shutdownFns, shutdownOnce, sidx, serr, sret, ran, first >>
  /\ TelemetryOnly

\* return err
ShutdownReturn(k) ==
  /\ scall[k] = "back"
  /\ sret' = [sret EXCEPT ![k] = IF serr[k] THEN "error" ELSE "nil"]
  /\ scall' = [scall EXCEPT ![k] = "returned"]
  /\ UNCHANGED << shutdownFns, shutdownOnce, sidx, serr, ran, first >>
  /\ TelemetryOnly

TelemetryNext ==
  \/ \E k \in ShutdownCalls : ShutdownCall(k)
  \/ \E k \in ShutdownCalls : ShutdownRunFn(k)
  \/ \E k \in ShutdownCalls : ShutdownOnceDone(k)
  \/ \E k \in ShutdownCalls : ShutdownUnblock(k)
  \/ \E k \in ShutdownCalls : ShutdownReturn(k)

TelemetrySpec == TelemetryInit /\ [][TelemetryNext]_vars

\* ------------------------------------------------------------------ properties
Started == {t \in Tasks : pc[t] # "idle"}
Done == {t \in Tasks : pc[t] = "done"}
Members(p) == {heap[p].Events[i] : i \in 1..Len(heap[p].Events)}
NoEviction == DOMAIN evicted = {}
Share(t, u) == KeySet(tkeys[t]) \cap KeySet(tkeys[u]) # {}
\* Task t leaves Correlate in this step.
Returns(t) == pc[t] = "act" /\ pc'[t] = "done"

\* C1: when every event handed to Correlate so far carries the same single
\* key and no sweep has evicted anything, at most one group has been created,
\* the table holds at most one group, and every call that has returned got
\* the same identifier, that of a stored group which contains its event.
SameSingleKey == \A t, u \in Started : ev[t] = ev[u] /\ Len(tkeys[t]) = 1

C1_OneGroupForOneKey ==
  (SameSingleKey /\ NoEviction) =>
    /\ Len(heap) <= 1
    /\ Cardinality(DOMAIN correlations) <= 1
    /\ \A t \in Done :
         /\ ret[t] \in DOMAIN correlations
         /\ t \in Members(correlations[ret[t]])
         /\ \A u \in Done : ret[u] = ret[t]

\* All the tasks have correlated the same single-key event, and a task that
\* reached Correlate later entered the critical section first.
C1_Witness ==
  /\ MaxTasks >= 2
  /\ Done = Tasks
  /\ SameSingleKey
  /\ NoEviction
  /\ Len(heap) = 1
  /\ Members(1) = Tasks
  /\ heap[1].Events[1] # 1

\* C2: with no eviction, any two correlated events that share a key were
\* given the same identifier.
C2_SharedKeySameGroup ==
  NoEviction =>
    \A t, u \in Done : Share(t, u) => ret[t] = ret[u]

\* C3: with no eviction, three correlated events A (ip), B (ip and user),
\* C (user) were all given the same identifier.
C3_Transitive ==
  NoEviction =>
    \A a, b, c \in Done :
      (ev[a] = 1 /\ ev[b] = 2 /\ ev[c] = 3) => (ret[a] = ret[b] /\ ret[b] = ret[c])

\* C4: the key set of every stored group is the union of the keys of its
\* members.
C4_KeysAreUnionOfMembers ==
  \A p \in Stored :
    KeySet(heap[p].Keys) = UNION {KeySet(tkeys[t]) : t \in Members(p)}

\* C5: two correlated events with disjoint key sets, with no other event
\* that shares a key with both, were given different identifiers.
Bridged(t, u) == \E w \in Started \ {t, u} : Share(w, t) /\ Share(w, u)

C5_NoFalseMerge ==
  \A t, u \in Done :
    (t # u /\ ~Share(t, u) /\ ~Bridged(t, u)) => ret[t] # ret[u]

\* C6: when exactly the three events of the scenario (ip; ip and user; user)
\* have been submitted and all three are correlated, they have one
\* identifier, that of a stored group that holds all three and whose key set
\* is {ip:10.0.0.5, user:alice}.
C6_Scenario ==
  \A a, b, c \in Done :
    (ev[a] = 1 /\ ev[b] = 2 /\ ev[c] = 3 /\ Started = {a, b, c} /\ NoEviction) =>
      /\ ret[a] = ret[b] /\ ret[b] = ret[c]
      /\ ret[a] \in DOMAIN correlations
      /\ Members(correlations[ret[a]]) = {a, b, c}
      /\ KeySet(heap[correlations[ret[a]]].Keys) = {"ip:10.0.0.5", "user:alice"}

\* C7: no event occurrence is a member of two groups or twice a member of
\* one; and each Correlate call changes exactly one group, by appending its
\* event to it: when some stored group matches, that group is a matching one,
\* no group is created, the map is unchanged, and the group's keys and
\* identifier stay as they were (nothing is merged into it).
Occurrences(t) ==
  {pi \in (1..Len(heap)) \X Tasks :
     pi[2] \in 1..Len(heap[pi[1]].Events) /\ heap[pi[1]].Events[pi[2]] = t}

C7_OneGroupPerEvent ==
  /\ [](\A t \in Tasks : Cardinality(Occurrences(t)) <= 1)
  /\ [][\A t \in Tasks : Returns(t) =>
          \E p \in 1..Len(heap') :
            /\ heap'[p].Events =
                 (IF p <= Len(heap) THEN Append(heap[p].Events, t) ELSE << t >>)
            /\ \A q \in 1..Len(heap) : q # p => heap'[q] = heap[q]
            /\ p <= Len(heap) =>
                 heap'[p].Keys = heap[p].Keys /\ heap'[p].ID = heap[p].ID
            /\ Len(heap') <= Len(heap) + 1
            /\ Matching(tkeys[t]) # {} =>
                 /\ p \in Matching(tkeys[t])
                 /\ Len(heap') = Len(heap)
                 /\ correlations' = correlations
       ]_vars

\* An event whose keys match two stored groups has been correlated.
C7_Witness ==
  \E t \in Done : Cardinality(Matching(tkeys[t])) >= 2

\* C8: no two groups ever created have the same identifier.
C8_IdentifiersUnique ==
  \A p, q \in 1..Len(heap) : p # q => heap[p].ID # heap[q].ID

\* C9: when a sweep completes, no stored group has a last update more than
\* the TTL before the reading the sweep took; a group a sweep has removed is
\* not returned by a GetGroup or GetActiveGroups call that reads the table
\* afterwards; and, as long as time passes and the sweep keeps running, the
\* groups that receive no further member are eventually removed: from some
\* moment on the table holds only groups updated so late that the clock of
\* the model stops before their expiry.
SweepCompletes == spc = "cs" /\ spc' = "tick"

C9_SweepEvictsExpired ==
  /\ [][SweepCompletes =>
          \A p \in Stored' : now - heap'[p].UpdatedAt <= ttl]_vars
  /\ [][\A r \in Readers :
          /\ (rpc[r] = "list" /\ rpc'[r] = "idle") =>
               \A i \in 1..Len(listed'[r]) : listed'[r][i] \notin DOMAIN evicted
          /\ (rpc[r] = "get" /\ rpc'[r] = "idle") =>
               got'[r] \notin DOMAIN evicted]_vars
  /\ <>[](\A p \in Stored : heap[p].UpdatedAt + ttl >= MaxNow)

\* A sweep has removed a group, and a later GetActiveGroups call returned
\* only groups created after that sweep.
C9_Witness ==
  \E p \in DOMAIN evicted : \E r \in Readers :
    /\ rpc[r] = "idle"
    /\ Len(listed[r]) >= 1
    /\ \A i \in 1..Len(listed[r]) : listed[r][i] > evicted[p]

\* C10: a group a sweep has removed is never stored again and its identifier
\* names no stored group; an event with the keys of an evicted group,
\* correlated after the eviction, is given another identifier than the
\* evicted group's and is placed in a group created after the eviction; and
\* the first such event (no event sharing a key with it was correlated since
\* the eviction) creates that group itself.
SinceEviction(p) ==
  UNION {Members(q) : q \in {r \in 1..Len(heap) : r > evicted[p]}}

C10_EvictedIsTerminal ==
  /\ [](\A p \in DOMAIN evicted :
          p \notin Stored /\ heap[p].ID \notin DOMAIN correlations)
  /\ [][\A t \in Tasks : Returns(t) =>
          \A p \in DOMAIN evicted :
            KeySet(tkeys[t]) = KeySet(heap[p].Keys) =>
              /\ ret'[t] # heap[p].ID
              /\ ret'[t] \in DOMAIN correlations'
              /\ correlations'[ret'[t]] > evicted[p]
              /\ \E i \in 1..Len(heap'[correlations'[ret'[t]]].Events) :
                   heap'[correlations'[ret'[t]]].Events[i] = t
              /\ (\A w \in SinceEviction(p) : ~Share(w, t)) =>
                   /\ correlations'[ret'[t]] = Len(heap) + 1
                   /\ heap'[Len(heap) + 1].Events = << t >>
       ]_vars

\* A group was evicted and an event with the same keys was correlated
\* afterwards.
C10_Witness ==
  \E p \in DOMAIN evicted : \E t \in Done :
    /\ KeySet(tkeys[t]) = KeySet(heap[p].Keys)
    /\ tkeys[t] # << >>
    /\ ret[t] \in DOMAIN correlations
    /\ correlations[ret[t]] > evicted[p]

\* --------------------------------------------------------------- the pipeline
\* The records on the output queue that carry the identifier id.
RecordsOf(id) == {i \in DOMAIN outputChan : outputChan[i].ID = id}
\* The tasks processEvent is running in.
InFlight == {t \in PipeTasks : stage[t] \notin {"none", "finished", "dropped"}}
\* Task t has got past normalization: Normalize returned no error.
Normalized(t) == stage[t] \in {"enrich", "correlate", "finished"}

\* C11: every raw event taken from the inbound queue whose normalization
\* succeeds eventually has exactly one ProcessedRecord with its identifier
\* on the output queue, and no event ever has two.
C11_EveryEventEmittedOnce ==
  /\ [](\A id \in 1..MaxEvents : Cardinality(RecordsOf(id)) <= 1)
  /\ \A t \in PipeTasks : Normalized(t) ~> (RecordsOf(raw[t]) # {})

\* C12: when Normalize fails for an event, its task stops there: it never
\* reaches enrichment or Correlate, the failing step and everything after
\* leave the correlation table and the output queue as they were, no record
\* with its identifier is ever on the output queue, and the task never
\* returns to normalization.
Dropped(t) == stage[t] = "dropped"
FailsAt(t) == stage[t] = "normalize" /\ stage'[t] = "dropped"

C12_NormalizationFailureStops ==
  /\ [](\A t \in PipeTasks :
          Dropped(t) =>
            /\ Normalize(schema, raw[t]).err
            /\ pc[t] = "idle" /\ ret[t] = NoID
            /\ enr[t] = NoEnrichments
            /\ RecordsOf(raw[t]) = {}
            /\ \A p \in DOMAIN heap : t \notin Members(p))
  /\ [][\A t \in PipeTasks :
          /\ (stage[t] = "normalize" /\ Normalize(schema, raw[t]).err)
               => stage'[t] \in {"normalize", "dropped"}
          /\ FailsAt(t) => UNCHANGED << heap, correlations, mu, outputChan >>
          /\ Dropped(t) => Dropped(t)']_vars

C12_Witness ==
  \E t \in PipeTasks : Dropped(t) /\ raw[t] # 0 /\ resp[t] = NoResponse

\* C13: a normalization failure of one event leaves every other task able to
\* go on: the failing step changes nothing of another task, of the table,
\* the lock, the clock or the two queues, and while a task lies dropped
\* every task under way can take its next step unless it waits for the lock
\* another task under way holds, or for room on the output queue, of which
\* the dropped task occupies none.
StepOf(y) ==
  \/ Analyze(y) \/ NormalizeStep(y) \/ EnrichStep(y) \/ CorrelateStep(y)
  \/ CorrelateLock(y) \/ CorrelateScan(y) \/ CorrelateAct(y) \/ Emit(y)
LocalsOf(y) ==
  << stage[y], raw[y], resp[y], ai[y], enr[y], pc[y], tkeys[y], found[y],
     ret[y] >>

AnalysisFailed(t) == resp[t] = ProviderError
Sends(t) == stage[t] = "correlate" /\ stage'[t] = "finished"
Sent == outputChan'[Len(outputChan')]

C14_AnalysisFailureIsSoft ==
  /\ [][\A t \in PipeTasks :
          /\ (stage[t] = "analyze" /\ AnalysisFailed(t)') =>
               stage'[t] = "normalize" /\ ai'[t] = NilAnalysis
          /\ stage[t] \notin {"none", "analyze"} => stage'[t] # "analyze"
          /\ (AnalysisFailed(t) /\ Sends(t)) =>
               /\ Sent.ID = raw[t]
               /\ Sent.AIAnalysis = NilAnalysis
               /\ Sent.MITRETactics = << >> /\ Sent.MITRETechniques = << >>
               /\ Sent.Enrichments = enr[t]
               /\ Sent.CorrelationID = ret[t] /\ ret[t] # NoID]_vars
  /\ \A t \in PipeTasks :
       (AnalysisFailed(t) /\ Normalized(t)) ~> (RecordsOf(raw[t]) # {})

\* C15: a record carries a score with one of the levels critical, high,
\* medium, low, info only when the provider's answer was parsed into a
\* judgment, and then the judgment's score; when the provider call failed
\* or its answer did not parse, the record has score 0 and level "unknown".
Levels == {"critical", "high", "medium", "low", "info"}
Judged(t) == ~resp[t].err /\ resp[t].json

C15_ScoreOnlyWithJudgment ==
  [][\A t \in PipeTasks :
       Sends(t) =>
         IF Judged(t)
         THEN Sent.RiskLevel \in Levels /\ Sent.RiskScore = resp[t].value.RiskScore
         ELSE Sent.RiskScore = 0 /\ Sent.RiskLevel = "unknown"]_vars

Visited == {sources[i].name : i \in 1..(eidx - 1)}
EnabledSources == {sources[i].name : i \in {j \in DOMAIN sources : sources[j].enabled}}

C17_EnrichNeverFails ==
  /\ eret \in {"none", "nil"}
  /\ epc # "idle" =>
       /\ DOMAIN eout = (Visited \cap EnabledSources) \ efail
       /\ \A n \in DOMAIN eout : eout[n] = ContextOf(n)
  /\ epc = "returned" =>
       /\ eret = "nil"
       /\ Visited = {sources[i].name : i \in DOMAIN sources}
       /\ DOMAIN eout = EnabledSources \ efail
       /\ DOMAIN eout \cap (NameSet \ EnabledSources) = {}

C17_Witness ==
  /\ epc = "returned"
  /\ \E i, j \in DOMAIN sources :
       i < j /\ sources[i].name \in efail /\ sources[j].name \in DOMAIN eout
  /\ NameSet \ EnabledSources # {}

\* C18: an event without correlation keys gets a new group of its own: once
\* its call has returned, the group it was put in holds that event alone,
\* is still stored under the identifier returned unless a sweep has evicted
\* it, and the identifier differs from the one any other event without keys
\* was given.
GroupsOf(t) == {p \in DOMAIN heap : t \in Members(p)}
Keyless == {t \in Done : tkeys[t] = << >>}

C18_KeylessEventOwnGroup ==
  \A t \in Keyless :
    /\ \A p \in GroupsOf(t) :
         /\ heap[p].Events = << t >>
         /\ p \notin DOMAIN evicted =>
              ret[t] \in DOMAIN correlations /\ correlations[ret[t]] = p
    /\ \A u \in Keyless \ {t} : ret[u] # ret[t]

\* C19: what a returned result of GetActiveGroups shows (the groups listed
\* and, for each, its members, keys and last-update time) is not changed by
\* anything done while the caller holds it; and GetGroup returns the group
\* stored under the identifier it was given, or nil when there is none.
Shown(r) == [i \in DOMAIN listed[r] |-> heap[listed[r][i]]]
Holds(r) == rpc[r] = "idle" /\ rpc'[r] = "idle" /\ listed[r] # << >>

C19_ListIsSnapshot ==
  [][\A r \in Readers :
       /\ Holds(r) => Shown(r)' = Shown(r)
       /\ (rpc[r] = "get" /\ rpc'[r] = "idle") =>
            got'[r] = IF rid[r] \in DOMAIN correlations
                      THEN correlations[rid[r]] ELSE Nil]_vars

\* C20: the inbound queue never holds more than its capacity; a send goes
\* through only while there is room, and then appends the event at the tail;
\* every event sent is either still queued, once, or has been handed to
\* exactly one task, never both; and the queue changes in no other way than
\* by such a send or by the receive that starts one task with the event at
\* the head.
Queued(id) == {i \in DOMAIN eventChan : eventChan[i] = id}
HandedTo(id) == {t \in PipeTasks : stage[t] # "none" /\ raw[t] = id}

C20_InboundQueueBounded ==
  /\ [](/\ Len(eventChan) <= eventChanCap
        /\ \A id \in 1..sent :
             Cardinality(Queued(id)) + Cardinality(HandedTo(id)) = 1
        /\ \A i \in DOMAIN eventChan : eventChan[i] \in 1..sent)
  /\ [][/\ Len(eventChan) >= eventChanCap => sent' = sent
        /\ eventChan' # eventChan =>
             \/ /\ eventChan' = Append(eventChan, sent + 1)
                /\ sent' = sent + 1
                /\ UNCHANGED << stage, raw >>
             \/ /\ eventChan' = Tail(eventChan)
                /\ sent' = sent
                /\ \E t \in PipeTasks :
                     /\ stage[t] = "none" /\ stage'[t] = "analyze"
                     /\ raw'[t] = Head(eventChan)
                     /\ \A u \in PipeTasks \ {t} :
                          stage'[u] = stage[u] /\ raw'[u] = raw[u]]_vars

C20_Witness ==
  /\ Len(eventChan) = eventChanCap
  /\ sent < MaxEvents
  /\ ~ENABLED CollectorSend

\* ------------------------------------------------------------------ the lock
\* C26: at most one Correlate call or sweep is inside its critical section,
\* and none is while a GetGroup or GetActiveGroups call is inside its read
\* section; the lock word says exactly who is inside; and every change of
\* the table or of a group, an append to an existing group included, is made
\* by the one writer inside, the sweep's through the same lock.
Writing == {t \in Tasks : pc[t] \in {"scan", "act"}}
Sweeping == IF spc = "cs" THEN 1 ELSE 0
Reading == {r \in Readers : rpc[r] \in {"get", "list"}}
Writers == Cardinality(Writing) + Sweeping

C26_MutualExclusion ==
  /\ [](/\ Writers <= 1
        /\ Writers = 1 => Reading = {}
        /\ mu.w <=> Writers = 1
        /\ mu.r = Cardinality(Reading))
  /\ [][(heap' # heap \/ correlations' # correlations) =>
          /\ mu.w /\ ~mu'.w /\ Writers = 1 /\ Reading = {}
          /\ (\E p \in DOMAIN heap : heap'[p] # heap[p]) =>
               \E t \in Writing : pc[t] = "act" /\ pc'[t] = "done"
          /\ (\E id \in DOMAIN correlations : id \notin DOMAIN correlations') =>
               spc = "cs" /\ spc' = "tick"]_vars

\* Two read calls are inside at once, over a group that got its second
\* member by an append.
C26_Witness ==
  /\ Cardinality(Reading) >= 2
  /\ \E p \in Stored : Len(heap[p].Events) >= 2

\* C27: a Correlate call's scan and its append or insert, and the sweep's
\* scan and delete, are not interleaved with one another: while one is
\* inside, no step of another changes the table or a group; the group a
\* scan stopped at is still stored when the event is appended to it; an
\* event is only ever appended to a stored group that no sweep has removed;
\* and when Correlate returns, the table holds under the identifier returned
\* a group that contains the event.
Inside(t) == pc[t] \in {"scan", "act"}

C27_ScanAndActAtomic ==
  /\ [](\A t \in Tasks :
          (pc[t] = "act" /\ found[t] # Nil) =>
            found[t] \in Stored /\ found[t] \notin DOMAIN evicted)
  /\ [][/\ \A t \in Tasks :
             (Inside(t) /\ pc'[t] = pc[t]) => UNCHANGED << heap, correlations >>
        /\ (spc = "cs" /\ spc' = "cs") => UNCHANGED << heap, correlations >>
        /\ \A p \in DOMAIN heap :
             heap'[p].Events # heap[p].Events =>
               /\ p \in Stored /\ p \in Stored'
               /\ p \notin DOMAIN evicted /\ p \notin DOMAIN evicted'
        /\ \A t \in Tasks : Returns(t) =>
             /\ ret'[t] \in DOMAIN correlations'
             /\ heap'[correlations'[ret'[t]]].ID = ret'[t]
             /\ \E i \in DOMAIN heap'[correlations'[ret'[t]]].Events :
                  heap'[correlations'[ret'[t]]].Events[i] = t]_vars

\* The sweep is inside and will delete an expired group, while a task whose
\* event matches that group waits for the lock and another has returned.
C27_Witness ==
  /\ spc = "cs"
  /\ \E t \in Tasks : \E p \in Stored :
       /\ pc[t] = "wait"
       /\ matchesGroup(tkeys[t], heap[p])
       /\ Expired(heap[p], now)
  /\ Done # {}

\* C28: the member list of a group only grows, by one member at the end at
\* a time: after every step the previous list is a prefix of the new one;
\* the member added is the event of the one Correlate call inside its
\* critical section, and every member already listed belongs to a call that
\* has left its own, so that the members stand in the order in which their
\* calls were inside, whatever the order in which they were submitted.
IsPrefix(a, b) ==
  Len(a) <= Len(b) /\ \A i \in DOMAIN a : a[i] = b[i]

C28_MembersAppendOnly ==
  [][/\ Len(heap') >= Len(heap)
     /\ \A p \in DOMAIN heap :
          /\ IsPrefix(heap[p].Events, heap'[p].Events)
          /\ heap'[p].Events # heap[p].Events =>
               \E t \in Tasks :
                 /\ Returns(t) /\ Writing = {t}
                 /\ heap'[p].Events = Append(heap[p].Events, t)
                 /\ \A i \in DOMAIN heap[p].Events :
                      pc[heap[p].Events[i]] = "done"
     /\ \A p \in DOMAIN heap' \ DOMAIN heap :
          \E t \in Tasks :
            Returns(t) /\ Writing = {t} /\ heap'[p].Events = << t >>]_vars

\* A stored group lists a member submitted later before one submitted
\* earlier (tasks are numbered in the order of submission).
C28_Witness ==
  \E p \in Stored : \E i, j \in DOMAIN heap[p].Events :
    i < j /\ heap[p].Events[i] > heap[p].Events[j]

\* C29: when Correlate returns having appended its event to an existing
\* group, the event's key set and that group's key set have a key in
\* common; when it returns having created a group, no group stored at that
\* moment has a key in common with the event; and whenever some stored
\* group has a key in common with the event, be it a single one among keys
\* that differ, the event is appended and no group is created.
SharesKey(keys, p) == KeySet(keys) \cap KeySet(heap[p].Keys) # {}
AppendsTo(t, p) == Returns(t) /\ heap'[p].Events = Append(heap[p].Events, t)
Creates(t) == Returns(t) /\ Len(heap') = Len(heap) + 1

C29_MatchIffSharedKey ==
  [][\A t \in Tasks : Returns(t) =>
       /\ \A p \in DOMAIN heap : AppendsTo(t, p) => SharesKey(tkeys[t], p)
       /\ Creates(t) => \A p \in Stored : ~SharesKey(tkeys[t], p)
       /\ (\E p \in Stored : SharesKey(tkeys[t], p)) =>
            /\ ~Creates(t)
            /\ \E p \in Stored : AppendsTo(t, p)
       /\ Creates(t) \/ \E p \in Stored : AppendsTo(t, p)]_vars

\* An event with two keys is a member of a stored group whose key set has
\* one of them only.
C29_Witness ==
  \E t \in Done : \E p \in Stored :
    /\ t \in Members(p)
    /\ Cardinality(KeySet(tkeys[t])) = 2
    /\ Cardinality(KeySet(tkeys[t]) \cap KeySet(heap[p].Keys)) = 1
    /\ heap[p].Events[1] # t

\* C30: every call of extractCorrelationKeys on an attribute map returns the
\* same list: one key kind:value for each of the five attributes that is
\* present with a non-empty string value and none for any other, in the
\* order ip, user, host, hash, domain, at most five keys and no key twice.
Usable(i) ==
  /\ KeyAttrs[i] \in DOMAIN kdata
  /\ kdata[KeyAttrs[i]].isString
  /\ kdata[KeyAttrs[i]].str # ""
KeyFor(i) == KeyKinds[i] \o ":" \o kdata[KeyAttrs[i]].str
Position(keys, k) == CHOOSE j \in DOMAIN keys : keys[j] = k

C30_KeysDeterministic ==
  \A n \in DOMAIN kkeys :
    LET keys == kkeys[n] IN
      /\ keys = kkeys[1]
      /\ Len(keys) = Cardinality({i \in DOMAIN KeyAttrs : Usable(i)})
      /\ Len(keys) <= 5
      /\ \A j, k \in DOMAIN keys : keys[j] = keys[k] => j = k
      /\ KeySet(keys) = {KeyFor(i) : i \in {h \in DOMAIN KeyAttrs : Usable(h)}}
      /\ \A h, i \in DOMAIN KeyAttrs :
           (h < i /\ Usable(h) /\ Usable(i)) =>
             Position(keys, KeyFor(h)) < Position(keys, KeyFor(i))

\* Two calls on a map with a usable first and last attribute, an empty, a
\* non-string and an absent one between them, and an attribute the function
\* does not look at.
C30_Witness ==
  /\ Len(kkeys) >= 2
  /\ kkeys[2] = << "ip:a", "domain:b" >>
  /\ "user" \in DOMAIN kdata /\ kdata["user"] = Str("")
  /\ "hostname" \in DOMAIN kdata /\ kdata["hostname"] = NonStr
  /\ "file_hash" \notin DOMAIN kdata
  /\ "dest_ip" \in DOMAIN kdata

\* C24: a task goes through the stages in the one order analysis,
\* normalization, enrichment, correlation, and calls Correlate in the
\* correlation stage only; the output queue changes only by a task's send,
\* made once its Correlate call has returned; and the record sent is
\* complete: it carries the event's identifier, the analysis and the
\* enrichments the task holds, the normalized data, the identifier its own
\* Correlate call returned, which names a group that contains the event,
\* and the score and level calculateRisk gives for that analysis.
StageOrder ==
  << "none", "analyze", "normalize", "enrich", "correlate", "finished" >>
Rank(s) == CHOOSE i \in DOMAIN StageOrder : StageOrder[i] = s

SweepAlive == spc \in {"tick", "cs"}

C21_SweepStopsOnShutdown ==
  /\ ctxDone ~> [](~SweepAlive)
  /\ [][(~SweepAlive /\ ctxDone) => UNCHANGED << correlations, evicted >>]_vars

\* A process whose analyzer was initialised, and which therefore started the
\* cleanup goroutine, has exited and the goroutine is no more.
C21_Witness ==
  /\ mainpc = "exited"
  /\ ~NewAnalyzer(aiCfg).err
  /\ ~SweepAlive

\* C22: a collector the configuration disables is never started; an enabled
\* one is started, in a goroutine of its own, unless the shutdown comes
\* first; a collector does not return before the context is cancelled and
\* does not go on collecting for ever after; and the return of one leaves
\* the others where they are.
C22_CollectorsLifecycle ==
  /\ [](\A c \in Collectors :
          /\ ~collectors[c] => cpc[c] = "none"
          /\ cpc[c] = "returned" => ctxDone)
  /\ [][\A c \in Collectors :
          (cpc[c] = "collect" /\ cpc'[c] = "returned") =>
            \A d \in Collectors \ {c} : cpc'[d] = cpc[d]]_vars
  /\ \A c \in Collectors :
       /\ (mainpc = "serving" /\ collectors[c]) ~> (cpc[c] # "none" \/ ctxDone)
       /\ (ctxDone /\ cpc[c] = "collect") ~> (cpc[c] # "collect")

\* After the cancellation one collector has returned while another is still
\* in Collect, and a disabled one was never started.
C22_Witness ==
  \E c, d, e \in Collectors :
    /\ cpc[c] = "returned"
    /\ cpc[d] = "collect"
    /\ ~collectors[e] /\ cpc[e] = "none"
    /\ ctxDone

\* C23: a task that was under way when the context was cancelled gets no
\* further than the end of the stage it was in: it begins no later stage.
UnderWay(s) == s \in {"analyze", "normalize", "enrich", "correlate"}

C23_NoNewStageAfterShutdown ==
  \A t \in MainTasks :
    (ctxDone /\ UnderWay(atCancel[t])) =>
      \/ stage[t] = "dropped"
      \/ Rank(stage[t]) <= Rank(atCancel[t]) + 1

\* C25: when the configuration names a provider other than the two
\* supported, or the environment variable for the API key is not set, main
\* never gets to steady state: the cleanup goroutine, the pipeline and the
\* collectors are never started, and no event is sent, received, correlated
\* or emitted.
C25_NoSteadyStateWithoutAnalyzer ==
  (aiCfg.provider \notin {"anthropic", "openai"} \/ ~aiCfg.keySet) =>
    /\ mainpc \in {"init", "fatal"}
    /\ spc = "none"
    /\ ~running /\ mgr = "none"
    /\ \A c \in Collectors : cpc[c] = "none"
    /\ sent = 0 /\ eventChan = << >> /\ outputChan = << >>
    /\ \A t \in Tasks : stage[t] = "none" /\ pc[t] = "idle"
    /\ heap = << >> /\ correlations = << >>

\* main has ended the process because the API key of a supported provider
\* is not set.
C25_Witness ==
  /\ mainpc = "fatal"
  /\ aiCfg.provider = "openai"
  /\ ~aiCfg.keySet
  /\ \E c \in Collectors : collectors[c]

\* ------------------------------------------------------------ the dispatcher
\* C31: while its loop runs, Pipeline.Start can take the event at the head
\* of the inbound queue whatever the tasks started earlier are doing, and
\* each receive starts exactly one task, with that event; once the loop has
\* taken the shutdown branch it stays returned, no event leaves the queue
\* and no task is started any more, so that the events queued at that point
\* are never processed.
Starts(t) == stage[t] = "none" /\ stage'[t] # "none"

C31_DispatchUntilShutdown ==
  /\ []((running /\ eventChan # << >>) => ENABLED StartReceive)
  /\ [](~running => \A i \in DOMAIN eventChan : HandedTo(eventChan[i]) = {})
  /\ [][/\ \A t \in PipeTasks :
             Starts(t) =>
               /\ running /\ eventChan # << >>
               /\ stage'[t] = "analyze" /\ raw'[t] = Head(eventChan)
               /\ eventChan' = Tail(eventChan)
               /\ \A u \in PipeTasks \ {t} : ~Starts(u) /\ stage'[u] = stage[u]
        /\ ~running =>
             /\ ~running'
             /\ \A i \in DOMAIN eventChan :
                  i \in DOMAIN eventChan' /\ eventChan'[i] = eventChan[i]]_vars

\* The loop has returned while an event is queued and the task of an
\* earlier event is still under way.
C31_Witness ==
  /\ ~running
  /\ eventChan # << >>
  /\ \E t \in PipeTasks : stage[t] \in {"analyze", "normalize", "enrich", "correlate"}

\* ------------------------------------------------------- the table's entries
\* C32: the key set of every group in the table is the key set of its first
\* member, and the key set of a group, in the table or removed from it,
\* never changes once the group exists.
FirstKeys(p) == extractCorrelationKeys(EventData[ev[heap[p].Events[1]]])

C32_KeysFixedAtCreation ==
  /\ [](\A p \in Stored : heap[p].Keys = FirstKeys(p))
  /\ [][\A p \in DOMAIN heap :
          p \in DOMAIN heap' /\ heap'[p].Keys = heap[p].Keys]_vars

\* A group in the table has a later member whose keys are not all among
\* the group's keys.
C32_Witness ==
  \E p \in Stored :
    /\ Len(heap[p].Events) >= 2
    /\ \E t \in Members(p) : ~(KeySet(tkeys[t]) \subseteq KeySet(heap[p].Keys))

\* C33: the step in which a Correlate call updates the table changes exactly
\* one entry and raises the number of members, summed over the groups in
\* the table, by one: either the event is appended to one group of the
\* table, or one group is stored under an identifier the table did not hold;
\* no identifier leaves the table or is given another group, and every
\* other group keeps its members, keys and timestamps.
RECURSIVE MembersIn(_, _)
MembersIn(h, S) ==
  IF S = {} THEN 0
  ELSE LET p == CHOOSE x \in S : TRUE
       IN Len(h[p].Events) + MembersIn(h, S \ {p})
Updates(t) == pc[t] = "act" /\ pc'[t] = "done"

C33_OneEntryPerCall ==
  [][\A t \in Tasks :
       Updates(t) =>
         /\ MembersIn(heap', {correlations'[id] : id \in DOMAIN correlations'})
              = MembersIn(heap, Stored) + 1
         /\ \A id \in DOMAIN correlations :
              id \in DOMAIN correlations' /\ correlations'[id] = correlations[id]
         /\ \/ /\ correlations' = correlations
               /\ \E p \in Stored :
                    /\ heap'[p].Events = Append(heap[p].Events, t)
                    /\ heap'[p].Keys = heap[p].Keys
                    /\ heap'[p].CreatedAt = heap[p].CreatedAt
                    /\ \A q \in DOMAIN heap \ {p} : heap'[q] = heap[q]
            \/ /\ Cardinality(DOMAIN correlations') =
                    Cardinality(DOMAIN correlations) + 1
               /\ \A q \in DOMAIN heap : heap'[q] = heap[q]
               /\ \E id \in DOMAIN correlations' \ DOMAIN correlations :
                    /\ correlations'[id] \notin DOMAIN heap
                    /\ heap'[correlations'[id]].Events = << t >>]_vars

\* C34: the scan of a Correlate call finds a group whenever the table holds
\* one that shares a key with the event, however long ago that group was
\* last updated; the event is appended to the group found, whose
\* last-update time becomes the current reading of the clock, so that the
\* group is not expired at that reading; and a sweep keeps every group that
\* is not expired at the reading the sweep takes.
Stale(p) == now - heap[p].UpdatedAt > ttl
Scans(t) == pc[t] = "scan" /\ pc'[t] = "act"
SweepEnds == spc = "cs" /\ spc' = "tick"

C34_NoTTLInCorrelate ==
  [][/\ \A t \in Tasks :
          /\ (Scans(t) /\ \E p \in Stored : SharesKey(tkeys[t], p)) =>
               found'[t] \in Stored /\ SharesKey(tkeys[t], found'[t])
          /\ (Updates(t) /\ found[t] # Nil) =>
               /\ heap'[found[t]].Events = Append(heap[found[t]].Events, t)
               /\ heap'[found[t]].UpdatedAt = now
               /\ now' = now
               /\ found[t] \in {correlations'[id] : id \in DOMAIN correlations'}
     /\ SweepEnds =>
          \A id \in DOMAIN correlations :
            ~Stale(correlations[id]) =>
              id \in DOMAIN correlations' /\ correlations'[id] = correlations[id]]_vars

\* A Correlate call holds the lock and its scan has stopped at a group that
\* is still in the table although its last update is older than the TTL,
\* all the groups that share a key with the event being that old.
C34_Witness ==
  \E t \in Tasks :
    /\ pc[t] = "act"
    /\ found[t] \in Stored
    /\ \A p \in Stored : SharesKey(tkeys[t], p) => Stale(p)

\* C35: a sweep removes no group whose idle time, the sweep's reading of the
\* clock minus the group's last-update time, is the TTL or less, and
\* changes no group; and no step other than a sweep takes a group out of
\* the table.
C35_OnlySweepRemoves ==
  [][IF SweepEnds
     THEN /\ \A id \in DOMAIN correlations :
               now - heap[correlations[id]].UpdatedAt <= ttl =>
                 id \in DOMAIN correlations' /\ correlations'[id] = correlations[id]
          /\ DOMAIN correlations' \subseteq DOMAIN correlations
          /\ heap' = heap
     ELSE \A p \in Stored :
            p \in {correlations'[id] : id \in DOMAIN correlations'}]_vars

\* C36: every entry of the table is stored under the identifier of its
\* group, and the group has at least one member and a creation time that
\* is not later than its last-update time; from one state to the next the
\* last-update time of a group, and the one found under an identifier that
\* stays in the table, never decreases.
C36_EntriesWellFormed ==
  /\ [](\A id \in DOMAIN correlations :
          /\ correlations[id] \in DOMAIN heap
          /\ heap[correlations[id]].ID = id
          /\ Len(heap[correlations[id]].Events) >= 1
          /\ heap[correlations[id]].CreatedAt <= heap[correlations[id]].UpdatedAt)
  /\ [][/\ \A p \in DOMAIN heap :
             p \in DOMAIN heap' /\ heap'[p].UpdatedAt >= heap[p].UpdatedAt
        /\ \A id \in DOMAIN correlations \cap DOMAIN correlations' :
             heap'[correlations'[id]].UpdatedAt >= heap[correlations[id]].UpdatedAt]_vars

\* The table holds a group created while the clock advanced, and a group
\* whose last-update time an append has moved past its creation time.
C36_Witness ==
  \E id, jd \in DOMAIN correlations :
    LET g == heap[correlations[id]]
        h == heap[correlations[jd]]
    IN /\ Len(g.Events) = 1 /\ g.CreatedAt < g.UpdatedAt
       /\ Len(h.Events) >= 2 /\ h.CreatedAt < h.UpdatedAt

\* ------------------------------------------------------------ observability
\* C37: Check starts the goroutine of any check not yet started whatever
\* the others are doing, and returns only when every check has finished;
\* the status it returns is "unhealthy" exactly when a critical check
\* failed, "degraded" exactly when no critical check failed and a
\* non-critical one did, "healthy" exactly when no check failed, in
\* whatever order the checks finished; and its components are the
\* registered checks, one entry each, with that check's own outcome.
FailedChecks(critical) ==
  {c \in CheckNames : herr[c] /\ checks[c] = critical}

C37_HealthStatusOrderFree ==
  /\ [](\A c \in CheckNames :
          (hcall = "spawn" /\ hgo[c] = "none") => ENABLED CheckSpawn(c))
  /\ [](hcall = "returned" =>
          /\ \A c \in CheckNames : hgo[c] = "done"
          /\ (status = "unhealthy") <=> (FailedChecks(TRUE) # {})
          /\ (status = "degraded") <=>
               (FailedChecks(TRUE) = {} /\ FailedChecks(FALSE) # {})
          /\ (status = "healthy") <=>
               (FailedChecks(TRUE) = {} /\ FailedChecks(FALSE) = {})
          /\ DOMAIN components = CheckNames
          /\ \A c \in CheckNames :
               components[c] = IF herr[c] THEN "unhealthy" ELSE "healthy"
          /\ lastStatus = [Status |-> status, Components |-> components])

\* Check has returned "unhealthy" for a critical check that failed, a
\* non-critical one that failed and a check that passed.
C37_Witness ==
  /\ hcall = "returned"
  /\ status = "unhealthy"
  /\ FailedChecks(TRUE) # {}
  /\ FailedChecks(FALSE) # {}
  /\ \E c \in CheckNames : ~herr[c]

\* C38: over any calls of Shutdown, one after the other or at once, no
\* shutdown function is run more than once; once the Once is done every
\* function has been run, those after a failing one included; the
\* functions are run in one call only, the first to reach the Once, and
\* every other call runs nothing and returns nil.
C38_ShutdownIdempotent ==
  /\ [](/\ \A i \in DOMAIN shutdownFns : ran[i] <= 1
        /\ shutdownOnce = "done" => \A i \in DOMAIN shutdownFns : ran[i] = 1
        /\ \A k \in ShutdownCalls :
             /\ scall[k] = "loop" => k = first
             /\ (scall[k] = "returned" /\ k # first) => sret[k] = "nil"
             /\ (scall[k] = "returned" /\ k = first) =>
                  (sret[k] = "error") <=>
                     (\E i \in DOMAIN shutdownFns : shutdownFns[i]))
  /\ [][/\ ran' # ran => first # 0 /\ scall[first] = "loop"
        /\ first # 0 => first' = first
        /\ \A k \in ShutdownCalls :
             (scall'[k] = "returned" /\ scall[k] # "returned") =>
               shutdownOnce = "done"]_vars

\* Two calls have returned, the first an error and the other nil, after
\* the first of two functions failed and both were run once.
C38_Witness ==
  /\ Len(shutdownFns) >= 2 /\ shutdownFns[1] /\ ~shutdownFns[2]
  /\ \A i \in DOMAIN shutdownFns : ran[i] = 1
  /\ \E k, j \in ShutdownCalls :
       /\ scall[k] = "returned" /\ sret[k] = "error"
       /\ scall[j] = "returned" /\ sret[j] = "nil"
====
